---- MODULE Spec2Model ----
(***************************************************************************)
(* EchoNote: the Chatbot view (src/src/components/Signup.jsx, lines 450 to *)
(* 908), the router that mounts it and the session storage it reads.       *)
(*                                                                         *)
(* A JavaScript string is modelled as the sequence of its characters, each *)
(* character a one-character TLA+ string, so that trim, toLowerCase,       *)
(* includes, replace and split are computed as the code computes them.     *)
(* The display-only `time` field of a message is not modelled.             *)
(***************************************************************************)
EXTENDS Integers, Sequences, FiniteSets, TLC

(***************************************************************************)
(* Characters and the JavaScript string primitives the view uses.          *)
(***************************************************************************)

UpperCase ==
  { "A", "B", "C", "D", "E", "F", "G", "H", "I", "J", "K", "L", "M", "N", "O", "P", "Q", "R", "S", "T", "U", "V", "W", "X", "Y", "Z" }

LowerCase ==
  { "a", "b", "c", "d", "e", "f", "g", "h", "i", "j", "k", "l", "m", "n", "o", "p", "q", "r", "s", "t", "u", "v", "w", "x", "y", "z" }

Digit ==
  { "0", "1", "2", "3", "4", "5", "6", "7", "8", "9" }

\* String.prototype.toLowerCase on one character
LowerOf ==
  "A" :> "a" @@ "B" :> "b" @@ "C" :> "c" @@ "D" :> "d" @@ "E" :> "e" @@ "F" :> "f" @@
  "G" :> "g" @@ "H" :> "h" @@ "I" :> "i" @@ "J" :> "j" @@ "K" :> "k" @@ "L" :> "l" @@
  "M" :> "m" @@ "N" :> "n" @@ "O" :> "o" @@ "P" :> "p" @@ "Q" :> "q" @@ "R" :> "r" @@
  "S" :> "s" @@ "T" :> "t" @@ "U" :> "u" @@ "V" :> "v" @@ "W" :> "w" @@ "X" :> "x" @@
  "Y" :> "y" @@ "Z" :> "z"

Letter == UpperCase \cup LowerCase

\* \s of the regular expressions and the characters String.prototype.trim removes
WhiteSpace == { " ", "\n", "\r", "\t" }

\* the character class [A-Za-z0-9 .'-]
NameClass == Letter \cup Digit \cup { " ", ".", "'", "-" }

toLowerCase(s) ==
  [i \in 1..Len(s) |-> IF s[i] \in UpperCase THEN LowerOf[s[i]] ELSE s[i]]

trim(s) ==
  LET keep == { i \in 1..Len(s) : s[i] \notin WhiteSpace }
  IN  IF keep = {} THEN << >>
      ELSE LET lo == CHOOSE i \in keep : \A j \in keep : i <= j
               hi == CHOOSE i \in keep : \A j \in keep : j <= i
           IN  SubSeq(s, lo, hi)

\* s.includes(t)
includes(s, t) ==
  \/ t = << >>
  \/ \E i \in 1..(Len(s) - Len(t) + 1) :
       s[i] = t[1] /\ SubSeq(s, i, i + Len(t) - 1) = t

\* the positions 1..Len(s) among which keep(_) holds, in order
positions(s, keep(_)) == SelectSeq([i \in 1..Len(s) |-> i], keep)

\* s.replace(/\r\n/g, '\n'): the carriage return of every \r\n pair goes
replaceCRLF(s) ==
  LET kept == positions(s, LAMBDA i : ~(s[i] = "\r" /\ i < Len(s) /\ s[i + 1] = "\n"))
  IN  [k \in 1..Len(kept) |-> s[kept[k]]]

\* s.replace(/\n+/g, ' '): every maximal run of newlines becomes one space
replaceNewlines(s) ==
  LET kept == positions(s, LAMBDA i : ~(s[i] = "\n" /\ i > 1 /\ s[i - 1] = "\n"))
  IN  [k \in 1..Len(kept) |-> IF s[kept[k]] = "\n" THEN " " ELSE s[kept[k]]]

\* filter with a test that lets every string through
filterNonEmpty_keepAll(seq) == seq

\* Array.prototype.filter keeping the non-empty strings (p.length > 0, Boolean)
filterNonEmpty(seq) == SelectSeq(seq, LAMBDA p : p # << >>)

(***************************************************************************)
(* splitIntoSpeakerParagraphs                                              *)
(***************************************************************************)
Speaker == << "S", "p", "e", "a", "k", "e", "r" >>

\* (?:Speaker\s*\d+:) matches at position q of s
matchesSpeakerLabel(s, q) ==
  /\ q + 6 <= Len(s)
  /\ SubSeq(s, q, q + 6) = Speaker
  /\ \E a \in (q + 7)..Len(s) : \E b \in (a + 1)..Len(s) :
       /\ \A k \in (q + 7)..(a - 1) : s[k] \in WhiteSpace
       /\ \A k \in a..(b - 1) : s[k] \in Digit
       /\ s[b] = ":"

\* (?:[A-Za-z][A-Za-z0-9 .'-]+:) matches at position q of s
matchesNameLabel(s, q) ==
  /\ s[q] \in Letter
  /\ \E b \in (q + 2)..Len(s) :
       /\ \A k \in (q + 1)..(b - 1) : s[k] \in NameClass
       /\ s[b] = ":"

\* the lookahead of the split expression succeeds at position q
labelAhead(s, q) == matchesSpeakerLabel(s, q) \/ matchesNameLabel(s, q)

\* String.prototype.split on a zero-width match: a cut before every
\* position but the first where the lookahead succeeds
splitBeforeLabels(s) ==
  LET cuts == positions(s, LAMBDA q : q > 1 /\ labelAhead(s, q))
      n    == Len(cuts)
  IN  [k \in 1..(n + 1) |->
         SubSeq(s, IF k = 1 THEN 1 ELSE cuts[k - 1],
                   IF k = n + 1 THEN Len(s) ELSE cuts[k] - 1)]

\* s.split(/\n{2,}/): a cut at every maximal run of two or more newlines
splitBlankLines(s) ==
  LET isRunStart(q) == /\ s[q] = "\n"
                       /\ q < Len(s) /\ s[q + 1] = "\n"
                       /\ q = 1 \/ s[q - 1] # "\n"
      isRunEnd(q)   == /\ s[q] = "\n"
                       /\ q > 1 /\ s[q - 1] = "\n"
                       /\ q = Len(s) \/ s[q + 1] # "\n"
      starts == positions(s, isRunStart)
      ends   == positions(s, isRunEnd)
      n      == Len(starts)
  IN  [k \in 1..(n + 1) |->
         SubSeq(s, IF k = 1 THEN 1 ELSE ends[k - 1] + 1,
                   IF k = n + 1 THEN Len(s) ELSE starts[k] - 1)]

\* cleanParagraph that keeps the first character of the paragraph only
cleanParagraph_truncating(p) ==
  LET cleaned == trim(replaceNewlines(p))
  IN  IF cleaned = << >> THEN << >> ELSE << cleaned[1] >>

cleanParagraph(p) == trim(replaceNewlines(p))

splitIntoSpeakerParagraphs(text) ==
  IF text = << >> THEN << >>
  ELSE LET norm  == trim(replaceCRLF(text))
           cut   == splitBeforeLabels(norm)
           parts == filterNonEmpty([i \in 1..Len(cut) |-> trim(cut[i])])
       IN  IF Len(parts) <= 1
           THEN LET blocks == splitBlankLines(norm)
                IN  filterNonEmpty([i \in 1..Len(blocks) |-> cleanParagraph(blocks[i])])
           ELSE [i \in 1..Len(parts) |-> cleanParagraph(parts[i])]

(***************************************************************************)
(* The Query Classifier, in its two copies.                                *)
(***************************************************************************)
Str_transcript == << "t", "r", "a", "n", "s", "c", "r", "i", "p", "t" >>

Str_trans == << "t", "r", "a", "n", "s" >>

\* the `triggers` array of isTranscriptQuery
triggers ==
  << << "s", "h", "o", "w", " ", "t", "r", "a", "n", "s", "c", "r", "i", "p", "t" >>,
     << "d", "i", "s", "p", "l", "a", "y", " ", "t", "r", "a", "n", "s", "c", "r", "i", "p", "t" >>,
     << "s", "h", "o", "w", " ", "m", "e", " ", "t", "h", "e", " ", "t", "r", "a", "n", "s", "c", "r", "i", "p", "t" >>,
     << "d", "i", "s", "p", "l", "a", "y", " ", "t", "h", "e", " ", "t", "r", "a", "n", "s", "c", "r", "i", "p", "t" >>,
     << "v", "i", "e", "w", " ", "t", "r", "a", "n", "s", "c", "r", "i", "p", "t" >>,
     << "s", "e", "e", " ", "t", "r", "a", "n", "s", "c", "r", "i", "p", "t" >>,
     << "f", "u", "l", "l", " ", "t", "r", "a", "n", "s", "c", "r", "i", "p", "t" >>,
     << "e", "n", "t", "i", "r", "e", " ", "t", "r", "a", "n", "s", "c", "r", "i", "p", "t" >>,
     << "w", "h", "o", "l", "e", " ", "t", "r", "a", "n", "s", "c", "r", "i", "p", "t" >>,
     << "r", "e", "a", "d", " ", "t", "r", "a", "n", "s", "c", "r", "i", "p", "t" >>,
     << "g", "i", "v", "e", " ", "m", "e", " ", "t", "r", "a", "n", "s", "c", "r", "i", "p", "t" >>,
     << "g", "e", "t", " ", "t", "r", "a", "n", "s", "c", "r", "i", "p", "t" >>,
     << "t", "r", "a", "n", "s", "c", "r", "i", "p", "t", " ", "p", "l", "e", "a", "s", "e" >>,
     << "s", "h", "o", "w", " ", "f", "u", "l", "l" >>,
     << "t", "r", "a", "n", "s", "c", "r", "i", "p", "t" >>,
     << "t", "r", "a", "n", "s" >>,
     << "s", "h", "o", "w", " ", "t", "r", "a", "n", "s" >> >>

\* the `misspellings` array of isTranscriptQuery
misspellings ==
  << << "t", "r", "a", "n", "s", "c", "i", "o", "t" >>,
     << "t", "r", "a", "n", "s", "c", "i", "p", "t" >>,
     << "t", "r", "a", "n", "s", "c", "i", "p", "t" >>,
     << "t", "r", "a", "n", "s", "c", "i", "i", "p", "t" >>,
     << "t", "r", "a", "n", "s", "c", "i", "o", "t" >> >>

\* isTranscriptQuery without its toLowerCase
isTranscriptQuery_caseSensitive(q) ==
  IF q = << >> THEN FALSE
  ELSE LET qLower == trim(q)
       IN  \/ \E i \in 1..Len(triggers) : includes(qLower, triggers[i])
           \/ \E i \in 1..Len(misspellings) : includes(qLower, misspellings[i])
           \/ qLower = Str_transcript
           \/ qLower = Str_trans

\* isTranscriptQuery with === in place of includes
isTranscriptQuery_exact(q) ==
  IF q = << >> THEN FALSE
  ELSE LET qLower == toLowerCase(trim(q))
       IN  \/ \E i \in 1..Len(triggers) : qLower = triggers[i]
           \/ \E i \in 1..Len(misspellings) : qLower = misspellings[i]
           \/ qLower = Str_transcript
           \/ qLower = Str_trans

isTranscriptQuery(q) ==
  IF q = << >> THEN FALSE
  ELSE LET qLower == toLowerCase(trim(q))
       IN  \/ \E i \in 1..Len(triggers) : includes(qLower, triggers[i])
           \/ \E i \in 1..Len(misspellings) : includes(qLower, misspellings[i])
           \/ qLower = Str_transcript
           \/ qLower = Str_trans

\* the `transcriptTriggers` array of askOllama
transcriptTriggers ==
  << << "s", "h", "o", "w", " ", "t", "r", "a", "n", "s", "c", "r", "i", "p", "t" >>,
     << "d", "i", "s", "p", "l", "a", "y", " ", "t", "r", "a", "n", "s", "c", "r", "i", "p", "t" >>,
     << "s", "h", "o", "w", " ", "m", "e", " ", "t", "h", "e", " ", "t", "r", "a", "n", "s", "c", "r", "i", "p", "t" >>,
     << "d", "i", "s", "p", "l", "a", "y", " ", "t", "h", "e", " ", "t", "r", "a", "n", "s", "c", "r", "i", "p", "t" >>,
     << "v", "i", "e", "w", " ", "t", "r", "a", "n", "s", "c", "r", "i", "p", "t" >>,
     << "s", "e", "e", " ", "t", "r", "a", "n", "s", "c", "r", "i", "p", "t" >>,
     << "f", "u", "l", "l", " ", "t", "r", "a", "n", "s", "c", "r", "i", "p", "t" >>,
     << "e", "n", "t", "i", "r", "e", " ", "t", "r", "a", "n", "s", "c", "r", "i", "p", "t" >>,
     << "w", "h", "o", "l", "e", " ", "t", "r", "a", "n", "s", "c", "r", "i", "p", "t" >>,
     << "r", "e", "a", "d", " ", "t", "r", "a", "n", "s", "c", "r", "i", "p", "t" >>,
     << "g", "i", "v", "e", " ", "m", "e", " ", "t", "r", "a", "n", "s", "c", "r", "i", "p", "t" >>,
     << "g", "e", "t", " ", "t", "r", "a", "n", "s", "c", "r", "i", "p", "t" >>,
     << "t", "r", "a", "n", "s", "c", "r", "i", "p", "t", " ", "p", "l", "e", "a", "s", "e" >>,
     << "s", "h", "o", "w", " ", "f", "u", "l", "l" >>,
     << "t", "r", "a", "n", "s", "c", "r", "i", "p", "t" >>,
     << "t", "r", "a", "n", "s" >>,
     << "s", "h", "o", "w", " ", "t", "r", "a", "n", "s" >> >>

\* the `misspellings` array of askOllama
askMisspellings ==
  << << "t", "r", "a", "n", "s", "c", "i", "o", "t" >>,
     << "t", "r", "a", "n", "s", "c", "i", "p", "t" >>,
     << "t", "r", "a", "n", "s", "c", "i", "p", "t" >>,
     << "t", "r", "a", "n", "s", "c", "i", "i", "p", "t" >>,
     << "t", "r", "a", "n", "s", "c", "i", "o", "t" >> >>

\* the inline test of askOllama without its toLowerCase
askOllamaWantsTranscript_caseSensitive(question) ==
  LET qLower == trim(question)
  IN  \/ \E i \in 1..Len(transcriptTriggers) : includes(qLower, transcriptTriggers[i])
      \/ \E i \in 1..Len(askMisspellings) : includes(qLower, askMisspellings[i])
      \/ qLower = Str_transcript
      \/ qLower = Str_trans

\* the inline test of askOllama with === in place of includes
askOllamaWantsTranscript_exact(question) ==
  LET qLower == toLowerCase(trim(question))
  IN  \/ \E i \in 1..Len(transcriptTriggers) : qLower = transcriptTriggers[i]
      \/ \E i \in 1..Len(askMisspellings) : qLower = askMisspellings[i]
      \/ qLower = Str_transcript
      \/ qLower = Str_trans

\* the inline test of askOllama that returns the transcript
askOllamaWantsTranscript(question) ==
  LET qLower == toLowerCase(trim(question))
  IN  \/ \E i \in 1..Len(transcriptTriggers) : includes(qLower, transcriptTriggers[i])
      \/ \E i \in 1..Len(askMisspellings) : includes(qLower, askMisspellings[i])
      \/ qLower = Str_transcript
      \/ qLower = Str_trans


(***************************************************************************)
(* The fixed texts of the view.                                            *)
(***************************************************************************)

initialQuestions ==
  << << "W", "h", "a", "t", " ", "w", "e", "r", "e", " ", "t", "h", "e", " ", "m", "a", "i", "n", " ", "a", "c", "t", "i", "o", "n", " ", "i", "t", "e", "m", "s", "?" >>,
     << "W", "h", "o", " ", "i", "s", " ", "r", "e", "s", "p", "o", "n", "s", "i", "b", "l", "e", " ", "f", "o", "r", " ", "m", "o", "b", "i", "l", "e", " ", "o", "p", "t", "i", "m", "i", "z", "a", "t", "i", "o", "n", "?" >>,
     << "W", "h", "a", "t", " ", "d", "e", "c", "i", "s", "i", "o", "n", "s", " ", "w", "e", "r", "e", " ", "m", "a", "d", "e", "?" >>,
     << "W", "h", "e", "n", " ", "i", "s", " ", "t", "h", "e", " ", "f", "o", "l", "l", "o", "w", "-", "u", "p", " ", "m", "e", "e", "t", "i", "n", "g", "?" >> >>

contextQuestions ==
  << << "W", "h", "a", "t", " ", "w", "e", "r", "e", " ", "t", "h", "e", " ", "m", "a", "i", "n", " ", "t", "o", "p", "i", "c", "s", " ", "d", "i", "s", "c", "u", "s", "s", "e", "d", "?" >>,
     << "C", "a", "n", " ", "y", "o", "u", " ", "s", "u", "m", "m", "a", "r", "i", "z", "e", " ", "t", "h", "i", "s", " ", "m", "e", "e", "t", "i", "n", "g", "?" >>,
     << "W", "h", "a", "t", " ", "a", "c", "t", "i", "o", "n", " ", "i", "t", "e", "m", "s", " ", "w", "e", "r", "e", " ", "m", "e", "n", "t", "i", "o", "n", "e", "d", "?" >>,
     << "W", "h", "o", " ", "p", "a", "r", "t", "i", "c", "i", "p", "a", "t", "e", "d", " ", "i", "n", " ", "t", "h", "i", "s", " ", "m", "e", "e", "t", "i", "n", "g", "?" >> >>

\* "Hello! I'm your AI meeting assistant. Please select a meeting from the dropdown above to get started."
Str_hello ==
  << "H", "e", "l", "l", "o", "!", " ", "I", "'", "m", " ", "y", "o", "u", "r", " ", "A", "I",
     " ", "m", "e", "e", "t", "i", "n", "g", " ", "a", "s", "s", "i", "s", "t", "a", "n", "t",
     ".", " ", "P", "l", "e", "a", "s", "e", " ", "s", "e", "l", "e", "c", "t", " ", "a", " ",
     "m", "e", "e", "t", "i", "n", "g", " ", "f", "r", "o", "m", " ", "t", "h", "e", " ", "d",
     "r", "o", "p", "d", "o", "w", "n", " ", "a", "b", "o", "v", "e", " ", "t", "o", " ", "g",
     "e", "t", " ", "s", "t", "a", "r", "t", "e", "d", "." >>

\* 'Great! I\'ve loaded the transcript for "'
Str_loadedPrefix ==
  << "G", "r", "e", "a", "t", "!", " ", "I", "'", "v", "e", " ", "l", "o", "a", "d", "e", "d",
     " ", "t", "h", "e", " ", "t", "r", "a", "n", "s", "c", "r", "i", "p", "t", " ", "f", "o",
     "r", " ", "\"" >>

\* '". You can ask me questions about this meeting, or use the suggested questions below.'
Str_loadedSuffix ==
  << "\"", ".", " ", "Y", "o", "u", " ", "c", "a", "n", " ", "a", "s", "k", " ", "m", "e", " ",
     "q", "u", "e", "s", "t", "i", "o", "n", "s", " ", "a", "b", "o", "u", "t", " ", "t", "h",
     "i", "s", " ", "m", "e", "e", "t", "i", "n", "g", ",", " ", "o", "r", " ", "u", "s", "e",
     " ", "t", "h", "e", " ", "s", "u", "g", "g", "e", "s", "t", "e", "d", " ", "q", "u", "e",
     "s", "t", "i", "o", "n", "s", " ", "b", "e", "l", "o", "w", "." >>

\* 'Please select a meeting from the dropdown above to start asking questions.'
Str_pleaseSelect ==
  << "P", "l", "e", "a", "s", "e", " ", "s", "e", "l", "e", "c", "t", " ", "a", " ", "m", "e",
     "e", "t", "i", "n", "g", " ", "f", "r", "o", "m", " ", "t", "h", "e", " ", "d", "r", "o",
     "p", "d", "o", "w", "n", " ", "a", "b", "o", "v", "e", " ", "t", "o", " ", "s", "t", "a",
     "r", "t", " ", "a", "s", "k", "i", "n", "g", " ", "q", "u", "e", "s", "t", "i", "o", "n",
     "s", "." >>

\* 'Error: '
Str_errorPrefix ==
  << "E", "r", "r", "o", "r", ":", " " >>

\* 'Sorry, I encountered an error. Please make sure Ollama is running and try again.'
Str_sorry ==
  << "S", "o", "r", "r", "y", ",", " ", "I", " ", "e", "n", "c", "o", "u", "n", "t", "e", "r",
     "e", "d", " ", "a", "n", " ", "e", "r", "r", "o", "r", ".", " ", "P", "l", "e", "a", "s",
     "e", " ", "m", "a", "k", "e", " ", "s", "u", "r", "e", " ", "O", "l", "l", "a", "m", "a",
     " ", "i", "s", " ", "r", "u", "n", "n", "i", "n", "g", " ", "a", "n", "d", " ", "t", "r",
     "y", " ", "a", "g", "a", "i", "n", "." >>

\* the texts askOllama leaves out of the chat history
thanksTexts ==
  { << "t", "h", "a", "n", "k", "s" >>,
    << "t", "h", "a", "n", "k", " ", "y", "o", "u" >>,
    << "t", "h", "a", "n", "k", " ", "u" >> }

(***************************************************************************)
(* The environment: what the user types and what the backend returns.      *)
(***************************************************************************)
\* meetings the backend lists for the user, with ids 1..NumMeetings
NumMeetings == 2

\* a question is accepted only while the log is shorter than this
MaxLog == 2

\* requests that may be outstanding at once
MaxInFlight == 2

\* the value of the "Choose Meeting" option of the dropdown
NoMeeting == 0

MeetingIds == 1..NumMeetings

\* 'hi'
Q_plain ==
  << "h", "i" >>

\* 'Show Trans'
Q_flagged ==
  << "S", "h", "o", "w", " ", "T", "r", "a", "n", "s" >>

\* the texts the user types into the chat input
Inputs == { << >>, Q_plain, Q_flagged }

\* 'Al: x\nBo: y'
T_labelled ==
  << "A", "l", ":", " ", "x", "\n", "B", "o", ":", " ", "y" >>

\* 'a\n\nb'
T_blankLine ==
  << "a", "\n", "\n", "b" >>

\* ' '
T_space ==
  << " " >>

\* the transcript the backend stores for meeting id
StoredTranscript(id) ==
  CASE id = 1 -> T_labelled
    [] id = 2 -> T_blankLine
    [] OTHER -> T_space

\* data.transcript of a reply for meeting id, << >> when it is empty or missing
Transcripts(id) == { << >>, StoredTranscript(id) }

AnyTranscript == { << >>, T_labelled, T_blankLine, T_space }

\* 'ok'
A_text ==
  << "o", "k" >>

\* data.answer of a chat reply, << >> when it is empty or missing
Answers == { << >>, A_text }

\* 'no'
E_text ==
  << "n", "o" >>

\* data.error of a chat reply that reports an error
Errors == { E_text }

\* of the suggested questions shown, the ones the user clicks
Clicked == { 1 }

\* the questions that are asked: the texts typed and the suggestions clicked
Questions ==
  Inputs \cup { initialQuestions[i] : i \in Clicked } \cup { contextQuestions[i] : i \in Clicked }

\* data.meeting_name of meeting id
MeetingName(id) == << "M" >> \o SubSeq(<< "1", "2", "3", "4", "5", "6", "7", "8", "9" >>, id, id)

\* data.meetings of the listing
BackendMeetings ==
  [id \in MeetingIds |-> [meeting_id |-> id, meeting_name |-> MeetingName(id)]]

(***************************************************************************)
(* State.                                                                  *)
(***************************************************************************)
VARIABLES
  route,               \* the path the router shows
  token,               \* localStorage holds 'token'
  user,                \* localStorage holds 'user'
  navLoggedIn,         \* isLoggedIn of the Navbar of the page shown
  isLoggedIn,          \* the useState fields of Chatbot
  meetings,
  selectedMeeting,
  selectedTranscript,
  suggestedQuestions,
  messages,
  input,
  isLoading,
  net,                 \* the fetch calls that have not resolved, oldest first
  loginTimers,         \* pending setTimeout callbacks of handleLogin
  homeLoggedIn,        \* isLoggedIn of Home
  meetingsLoggedIn,    \* isLoggedIn of Meetings, then its other useState fields
  selectedFile,
  meetingName,
  meetingsTranscript,
  isUploading,
  uploadStatus,
  meetingUrl,
  meetingBotName,
  isRecording,
  recordStatus,
  email,               \* the useState fields of Signup that handleSignup names
  password,
  confirm,
  error,
  success

view ==
  << isLoggedIn, meetings, selectedMeeting, selectedTranscript, suggestedQuestions,
     messages, input, isLoading >>

\* the state of Meetings
uploads ==
  << meetingsLoggedIn, selectedFile, meetingName, meetingsTranscript, isUploading,
     uploadStatus, meetingUrl, meetingBotName, isRecording, recordStatus >>

\* the state of Signup
form == << email, password, confirm, error, success >>

vars == << route, token, user, navLoggedIn, view, net, loginTimers, homeLoggedIn, uploads, form >>

BotMessage(t) == [sender |-> "bot", text |-> t]

UserMessage(t) == [sender |-> "user", text |-> t]

BotMessages(paragraphs) == [i \in 1..Len(paragraphs) |-> BotMessage(paragraphs[i])]

\* the message Chatbot starts with
HelloMessage == BotMessage(Str_hello)

\* the message fetchTranscript replaces the log with
LoadedMessage(name) == BotMessage(Str_loadedPrefix \o name \o Str_loadedSuffix)

\* The state of an unmounted Chatbot is gone, and the model puts the useState
\* defaults in its place.  When it is a handler of Chatbot that navigates
\* away, the model keeps what the handler left until the next step.
viewGone ==
  /\ isLoggedIn' = FALSE
  /\ meetings' = << >>
  /\ selectedMeeting' = NoMeeting
  /\ selectedTranscript' = << >>
  /\ suggestedQuestions' = initialQuestions
  /\ messages' = << HelloMessage >>
  /\ input' = << >>
  /\ isLoading' = FALSE

\* a step that is no handler of a mounted Chatbot and does not unmount one
viewKept == IF route = "/chatbot" THEN UNCHANGED view ELSE viewGone

\* no file is selected
NoFile == << >>

\* the useState defaults of Meetings
uploadsStart ==
  /\ meetingsLoggedIn = FALSE
  /\ selectedFile = NoFile
  /\ meetingName = << >>
  /\ meetingsTranscript = << >>
  /\ isUploading = FALSE
  /\ uploadStatus = << >>
  /\ meetingUrl = << >>
  /\ meetingBotName = << >>
  /\ isRecording = FALSE
  /\ recordStatus = << >>

\* the state of an unmounted Meetings is gone, as that of Chatbot
uploadsGone ==
  /\ meetingsLoggedIn' = FALSE
  /\ selectedFile' = NoFile
  /\ meetingName' = << >>
  /\ meetingsTranscript' = << >>
  /\ isUploading' = FALSE
  /\ uploadStatus' = << >>
  /\ meetingUrl' = << >>
  /\ meetingBotName' = << >>
  /\ isRecording' = FALSE
  /\ recordStatus' = << >>

\* a step that is no handler of a mounted Meetings and does not unmount one
uploadsKept == IF route = "/meetings" THEN UNCHANGED uploads ELSE uploadsGone

\* the useState defaults of Signup
formStart ==
  /\ email = << >>
  /\ password = << >>
  /\ confirm = << >>
  /\ error = << >>
  /\ success = << >>

\* the pages whose fetch calls set the state of their component
Pages == { "/chatbot", "/meetings" }

\* the oldest request goes, whichever has resolved
Remove_oldest(seq, i) == Tail(seq)

Remove(seq, i) == SubSeq(seq, 1, i - 1) \o SubSeq(seq, i + 1, Len(seq))

\* React drops the state updates of a component that has been unmounted: the
\* requests of a Chatbot that is unmounted stop being live, and of their
\* handlers only the 401 branch still has an effect
StaleRequest == [kind |-> "stale", live |-> FALSE]

unmounted(requests) ==
  [i \in 1..Len(requests) |->
     IF requests[i].kind = "login" THEN requests[i] ELSE StaleRequest]

Init ==
  /\ route = "/"
  /\ token = FALSE
  /\ user = FALSE
  /\ navLoggedIn = FALSE
  /\ isLoggedIn = FALSE
  /\ meetings = << >>
  /\ selectedMeeting = NoMeeting
  /\ selectedTranscript = << >>
  /\ suggestedQuestions = initialQuestions
  /\ messages = << HelloMessage >>
  /\ input = << >>
  /\ isLoading = FALSE
  /\ net = << >>
  /\ loginTimers = 0
  /\ homeLoggedIn = FALSE
  /\ uploadsStart
  /\ formStart

(***************************************************************************)
(* The router and the Navbar.                                              *)
(***************************************************************************)
\* navigate(target) called by a handler that has set token' and user' and
\* leaves `requests` outstanding; a handler never navigates to /chatbot
navigate(target, requests) ==
  /\ route' = target
  /\ navLoggedIn' = IF target = route THEN navLoggedIn ELSE token' /\ user'
  /\ homeLoggedIn' = IF target = route THEN homeLoggedIn ELSE target = "/" /\ token'
  /\ net' = IF route \in Pages /\ target # route THEN unmounted(requests) ELSE requests

\* no login request is outstanding and no redirect of handleLogin is pending
loginSettled ==
  /\ loginTimers = 0
  /\ \A i \in 1..Len(net) : net[i].kind # "login"

\* Chatbot is mounted: its state is the useState defaults, then the two
\* effects run.  The user opens the page once a login is settled.
MountChatbot ==
  /\ route # "/chatbot"
  /\ loginSettled
  /\ token => Len(net) < MaxInFlight
  /\ route' = "/chatbot"
  /\ navLoggedIn' = (token /\ user)
  /\ homeLoggedIn' = FALSE
  /\ isLoggedIn' = token
  /\ meetings' = << >>
  /\ selectedMeeting' = NoMeeting
  /\ selectedTranscript' = << >>
  /\ suggestedQuestions' = initialQuestions
  /\ messages' = << HelloMessage >>
  /\ input' = << >>
  /\ isLoading' = FALSE
  /\ LET requests == IF route \in Pages THEN unmounted(net) ELSE net
     IN  net' = IF token THEN Append(requests, [kind |-> "meetings", live |-> TRUE])
                ELSE requests
  /\ uploadsGone
  /\ UNCHANGED << token, user, loginTimers, form >>

\* Meetings is mounted by its Link of the Navbar: its state is the useState
\* defaults, then the effect runs
MountMeetings ==
  /\ route # "/meetings"
  /\ loginSettled
  /\ route' = "/meetings"
  /\ navLoggedIn' = (token /\ user)
  /\ homeLoggedIn' = FALSE
  /\ meetingsLoggedIn' = token
  /\ selectedFile' = NoFile
  /\ meetingName' = << >>
  /\ meetingsTranscript' = << >>
  /\ isUploading' = FALSE
  /\ uploadStatus' = << >>
  /\ meetingUrl' = << >>
  /\ meetingBotName' = << >>
  /\ isRecording' = FALSE
  /\ recordStatus' = << >>
  /\ net' = IF route \in Pages THEN unmounted(net) ELSE net
  /\ viewGone
  /\ UNCHANGED << token, user, loginTimers, form >>

\* a Link of the Navbar to another page
FollowLink(target) ==
  /\ target \in { "/", "/login" }
  /\ target # route
  /\ UNCHANGED << token, user >>
  /\ navigate(target, net)
  /\ viewGone
  /\ uploadsGone
  /\ UNCHANGED << loginTimers, form >>

handleLogout ==
  /\ navLoggedIn
  /\ token' = FALSE
  /\ user' = FALSE
  /\ route' = "/"
  /\ navLoggedIn' = FALSE
  /\ homeLoggedIn' = (route = "/" /\ homeLoggedIn)
  /\ net' = IF route \in Pages THEN unmounted(net) ELSE net
  /\ viewGone
  /\ uploadsGone
  /\ UNCHANGED << loginTimers, form >>

(***************************************************************************)
(* Login.                                                                  *)
(***************************************************************************)
handleLogin ==
  /\ route = "/login"
  /\ Len(net) + loginTimers < MaxInFlight
  /\ net' = Append(net, [kind |-> "login", live |-> FALSE])
  /\ viewKept
  /\ uploadsKept
  /\ UNCHANGED form
  /\ UNCHANGED << route, token, user, navLoggedIn, homeLoggedIn, loginTimers >>

\* handleLoginResponse without its localStorage.setItem('user', ...) call
handleLoginResponse_tokenOnly(i, out) ==
  /\ net[i].kind = "login"
  /\ out \in { "ok", "rejected", "throw" }
  /\ net' = Remove(net, i)
  /\ IF out = "ok"
     THEN token' = TRUE /\ user' = user /\ loginTimers' = loginTimers + 1
     ELSE UNCHANGED << token, user, loginTimers >>
  /\ viewKept
  /\ uploadsKept
  /\ UNCHANGED form
  /\ UNCHANGED << route, navLoggedIn, homeLoggedIn >>

\* the rest of handleLogin, once fetch has resolved
handleLoginResponse(i, out) ==
  /\ net[i].kind = "login"
  /\ out \in { "ok", "rejected", "throw" }
  /\ net' = Remove(net, i)
  /\ IF out = "ok"
     THEN token' = TRUE /\ user' = TRUE /\ loginTimers' = loginTimers + 1
     ELSE UNCHANGED << token, user, loginTimers >>
  /\ viewKept
  /\ uploadsKept
  /\ UNCHANGED form
  /\ UNCHANGED << route, navLoggedIn, homeLoggedIn >>

\* the setTimeout callback of handleLogin
loginRedirect ==
  /\ loginTimers > 0
  /\ loginTimers' = loginTimers - 1
  /\ UNCHANGED << token, user >>
  /\ navigate("/", net)
  /\ viewGone
  /\ uploadsGone
  /\ UNCHANGED form

(***************************************************************************)
(* Chatbot: the handlers of the user's actions.                            *)
(***************************************************************************)
\* handleProtectedAction without its test of isLoggedIn
handleProtectedAction_open == TRUE

handleProtectedAction == isLoggedIn

\* the branch of a handler whose handleProtectedAction call returned false
redirectToLogin ==
  /\ UNCHANGED << token, user >>
  /\ navigate("/login", net)
  /\ UNCHANGED << view, loginTimers >>

\* askOllama with the transcript test moved after the classifier
askOllama_classifierFirst(question) ==
  IF askOllamaWantsTranscript(question)
  THEN [fetch |-> FALSE, answer |-> replaceNewlines(selectedTranscript)]
  ELSE IF selectedTranscript = << >>
       THEN [fetch |-> FALSE, answer |-> Str_pleaseSelect]
       ELSE [fetch |-> TRUE, answer |-> << >>]

\* what askOllama does before it awaits: the answer it returns at once, or
\* the request it sends
askOllama(question) ==
  IF selectedTranscript = << >>
  THEN [fetch |-> FALSE, answer |-> Str_pleaseSelect]
  ELSE IF askOllamaWantsTranscript(question)
       THEN [fetch |-> FALSE, answer |-> replaceNewlines(selectedTranscript)]
       ELSE [fetch |-> TRUE, answer |-> << >>]

\* appendAnswer with setMessages([...]) in place of the functional update: the
\* answer replaces the log
appendAnswer_replacing(log, question, answer) ==
  IF answer = << >> THEN log
  ELSE IF isTranscriptQuery(question)
       THEN BotMessages(splitIntoSpeakerParagraphs(answer))
       ELSE << BotMessage(answer) >>

\* messages.filter(...) of askOllama: the user messages that are not thanks
filteredMessages(log) ==
  SelectSeq(log, LAMBDA msg : msg.sender = "user" /\ toLowerCase(msg.text) \notin thanksTexts)

\* the chatHistory askOllama builds from the messages of the last render
chatHistory(log) ==
  LET filtered == filteredMessages(log)
  IN  [k \in 1..(Len(filtered) \div 2) |->
         [question |-> filtered[2 * k - 1].text, answer |-> filtered[2 * k].text]]

\* the `if (answer)` block of handleSend and handleQuestionClick
appendAnswer(log, question, answer) ==
  IF answer = << >> THEN log
  ELSE IF isTranscriptQuery(question)
       THEN log \o BotMessages(splitIntoSpeakerParagraphs(answer))
       ELSE Append(log, BotMessage(answer))

\* the part handleSend and handleQuestionClick share: the user message, then
\* askOllama up to its fetch, then the answer if there is one already
submitQuestion(question) ==
  LET asked == askOllama(question)
      log   == Append(messages, UserMessage(question))
  IN  /\ suggestedQuestions' = << >>
      /\ IF asked.fetch
         THEN /\ Len(net) < MaxInFlight
              /\ isLoading' = TRUE
              /\ messages' = log
              /\ net' = Append(net, [kind |-> "chat", live |-> TRUE,
                                     question |-> question,
                                     transcript |-> selectedTranscript,
                                     chat_history |-> chatHistory(messages),
                                     messages |-> messages])
         ELSE /\ isLoading' = isLoading
              /\ messages' = appendAnswer(log, question, asked.answer)
              /\ net' = net
      /\ UNCHANGED << route, token, user, navLoggedIn, homeLoggedIn, loginTimers >>
      /\ UNCHANGED << isLoggedIn, meetings, selectedMeeting, selectedTranscript >>

\* onChange of the chat input
setInput(value) ==
  /\ route = "/chatbot"
  /\ UNCHANGED << uploads, form >>
  /\ ~isLoading
  /\ value # input
  /\ input' = value
  /\ UNCHANGED << route, token, user, navLoggedIn, homeLoggedIn, net, loginTimers >>
  /\ UNCHANGED << isLoggedIn, meetings, selectedMeeting, selectedTranscript,
                  suggestedQuestions, messages, isLoading >>

\* onFocus of the chat input
onFocus ==
  /\ route = "/chatbot"
  /\ UNCHANGED << uploads, form >>
  /\ ~isLoading
  /\ IF handleProtectedAction
     THEN /\ suggestedQuestions' = << >>
          /\ UNCHANGED << route, token, user, navLoggedIn, homeLoggedIn, net, loginTimers >>
          /\ UNCHANGED << isLoggedIn, meetings, selectedMeeting, selectedTranscript,
                          messages, input, isLoading >>
     ELSE redirectToLogin

\* handleSend with the Send button and the Enter key left on while isLoading
handleSend_whileLoading ==
  /\ route = "/chatbot"
  /\ UNCHANGED << uploads, form >>
  /\ IF ~handleProtectedAction THEN redirectToLogin
     ELSE IF trim(input) = << >>
          THEN UNCHANGED << route, token, user, navLoggedIn, homeLoggedIn, view, net, loginTimers >>
          ELSE /\ Len(messages) < MaxLog
               /\ input' = << >>
               /\ submitQuestion(input)

\* the Send button and the Enter key, both off while isLoading; a question
\* is sent while the log has fewer than `cap` messages
handleSendAt(cap) ==
  /\ route = "/chatbot"
  /\ UNCHANGED << uploads, form >>
  /\ ~isLoading
  /\ IF ~handleProtectedAction THEN redirectToLogin
     ELSE IF trim(input) = << >>
          THEN UNCHANGED << route, token, user, navLoggedIn, homeLoggedIn, view, net, loginTimers >>
          ELSE /\ Len(messages) < cap
               /\ input' = << >>
               /\ submitQuestion(input)

handleSend == handleSendAt(MaxLog)

\* a click on a suggested question
handleQuestionClick(question) ==
  /\ route = "/chatbot"
  /\ UNCHANGED << uploads, form >>
  /\ \E i \in Clicked \cap (1..Len(suggestedQuestions)) : suggestedQuestions[i] = question
  /\ IF ~handleProtectedAction THEN redirectToLogin
     ELSE /\ Len(messages) < MaxLog
          /\ input' = input
          /\ submitQuestion(question)

\* the "Show full transcript" button, off while no transcript is loaded
handleShowTranscript ==
  /\ route = "/chatbot"
  /\ UNCHANGED << uploads, form >>
  /\ selectedTranscript # << >>
  /\ IF ~handleProtectedAction THEN redirectToLogin
     ELSE /\ Len(messages) < MaxLog
          /\ messages' = messages \o BotMessages(splitIntoSpeakerParagraphs(selectedTranscript))
          /\ suggestedQuestions' = << >>
          /\ UNCHANGED << route, token, user, navLoggedIn, homeLoggedIn, net, loginTimers >>
          /\ UNCHANGED << isLoggedIn, meetings, selectedMeeting, selectedTranscript,
                          input, isLoading >>

\* onChange of the dropdown, then the effect on selectedMeeting
handleMeetingChange(value) ==
  /\ route = "/chatbot"
  /\ UNCHANGED << uploads, form >>
  /\ value # selectedMeeting
  /\ \/ value = NoMeeting
     \/ \E i \in 1..Len(meetings) : meetings[i].meeting_id = value
  /\ IF ~handleProtectedAction THEN redirectToLogin
     ELSE /\ selectedMeeting' = value
          /\ IF value # NoMeeting
             THEN /\ Len(net) < MaxInFlight
                  /\ net' = Append(net, [kind |-> "transcript", live |-> TRUE,
                                         meetingId |-> value])
                  /\ UNCHANGED << selectedTranscript, suggestedQuestions >>
             ELSE /\ selectedTranscript' = << >>
                  /\ suggestedQuestions' = initialQuestions
                  /\ net' = net
          /\ UNCHANGED << route, token, user, navLoggedIn, homeLoggedIn, loginTimers >>
          /\ UNCHANGED << isLoggedIn, meetings, messages, input, isLoading >>

(***************************************************************************)
(* Chatbot: the code that runs once a fetch has resolved.  The state       *)
(* updates of a request that is no longer live are dropped; its writes to  *)
(* localStorage and its navigate call are not.                             *)
(***************************************************************************)
\* the 401 branch without its two localStorage.removeItem calls
unauthorized_keepsCredentials(i) ==
  /\ token' = token
  /\ user' = user
  /\ navigate("/login", Remove(net, i))

\* the 401 branch without its navigate('/login') call
unauthorized_staying(i) ==
  /\ token' = FALSE
  /\ user' = FALSE
  /\ UNCHANGED << route, navLoggedIn, homeLoggedIn >>
  /\ net' = Remove(net, i)

\* the 401 branch shared by fetchUserMeetings, fetchTranscript, askOllama,
\* handleUpload and handleRecordMeeting, but for setIsLoggedIn(false)
unauthorized(i) ==
  /\ token' = FALSE
  /\ user' = FALSE
  /\ navigate("/login", Remove(net, i))

\* the reply to a request whose Chatbot has been unmounted: fetchUserMeetings,
\* fetchTranscript or askOllama from its await on, the state updates dropped
staleReply(i, out) ==
  /\ net[i].kind = "stale"
  /\ out \in { "401", "other" }
  /\ IF out = "401"
     THEN /\ unauthorized(i)
          /\ viewGone
          /\ uploadsGone
     ELSE /\ net' = Remove(net, i)
          /\ UNCHANGED << route, token, user, navLoggedIn, homeLoggedIn >>
          /\ viewKept
          /\ uploadsKept
  /\ UNCHANGED << loginTimers, form >>

\* fetchUserMeetings from its await on
fetchUserMeetings(i, out, listed) ==
  /\ net[i].kind = "meetings"
  /\ UNCHANGED << uploads, form >>
  /\ out \in { "401", "ok", "badjson", "status", "throw" }
  /\ listed \in { << >>, BackendMeetings }
  /\ out # "ok" => listed = << >>
  /\ IF out = "401"
     THEN /\ unauthorized(i)
          /\ isLoggedIn' = FALSE
          /\ UNCHANGED meetings
     ELSE /\ meetings' = IF out = "status" THEN meetings ELSE listed
          /\ net' = Remove(net, i)
          /\ UNCHANGED << route, token, user, navLoggedIn, homeLoggedIn, isLoggedIn >>
  /\ UNCHANGED << selectedMeeting, selectedTranscript, suggestedQuestions, messages,
                  input, isLoading >>
  /\ UNCHANGED loginTimers

\* updateSuggestedQuestions without its `if (!transcript)` branch
updateSuggestedQuestions_contextOnly(transcript) ==
  contextQuestions

updateSuggestedQuestions(transcript) ==
  IF transcript = << >> THEN initialQuestions ELSE contextQuestions

\* transcriptReply with the greeting appended to the log
transcriptReply_appending(meetingId, out, transcript) ==
  CASE out = "ok" ->
         [selectedTranscript |-> transcript,
          messages           |-> Append(messages, LoadedMessage(MeetingName(meetingId))),
          suggestedQuestions |-> updateSuggestedQuestions(transcript)]
    [] out = "status" ->
         [selectedTranscript |-> selectedTranscript,
          messages           |-> messages,
          suggestedQuestions |-> suggestedQuestions]
    [] OTHER ->
         [selectedTranscript |-> << >>,
          messages           |-> messages,
          suggestedQuestions |-> suggestedQuestions]

\* transcriptReply with the default questions put back by a reply that is not OK
transcriptReply_restoring(meetingId, out, transcript) ==
  CASE out = "ok" ->
         [selectedTranscript |-> transcript,
          messages           |-> << LoadedMessage(MeetingName(meetingId)) >>,
          suggestedQuestions |-> updateSuggestedQuestions(transcript)]
    [] out = "status" ->
         [selectedTranscript |-> selectedTranscript,
          messages           |-> messages,
          suggestedQuestions |-> initialQuestions]
    [] OTHER ->
         [selectedTranscript |-> << >>,
          messages           |-> messages,
          suggestedQuestions |-> initialQuestions]

\* what fetchTranscript makes of selectedTranscript, messages and
\* suggestedQuestions for a reply that is not a 401
transcriptReply(meetingId, out, transcript) ==
  CASE out = "ok" ->
         [selectedTranscript |-> transcript,
          messages           |-> << LoadedMessage(MeetingName(meetingId)) >>,
          suggestedQuestions |-> updateSuggestedQuestions(transcript)]
    [] out = "status" ->
         [selectedTranscript |-> selectedTranscript,
          messages           |-> messages,
          suggestedQuestions |-> suggestedQuestions]
    [] OTHER ->
         [selectedTranscript |-> << >>,
          messages           |-> messages,
          suggestedQuestions |-> suggestedQuestions]

\* fetchTranscript from its await on
fetchTranscript(i, out, transcript) ==
  /\ net[i].kind = "transcript"
  /\ UNCHANGED << uploads, form >>
  /\ out \in { "401", "ok", "badjson", "status", "throw" }
  /\ transcript \in Transcripts(net[i].meetingId)
  /\ out # "ok" => transcript = << >>
  /\ IF out = "401"
     THEN /\ unauthorized(i)
          /\ isLoggedIn' = FALSE
          /\ UNCHANGED << selectedTranscript, messages, suggestedQuestions >>
     ELSE LET after == transcriptReply(net[i].meetingId, out, transcript)
          IN  /\ selectedTranscript' = after.selectedTranscript
              /\ messages' = after.messages
              /\ suggestedQuestions' = after.suggestedQuestions
              /\ net' = Remove(net, i)
              /\ UNCHANGED << route, token, user, navLoggedIn, homeLoggedIn, isLoggedIn >>
  /\ UNCHANGED << meetings, selectedMeeting, input, isLoading, loginTimers >>

\* askOllama with a catch block that returns nothing
chatAnswer_silent(out, text) ==
  CASE out = "answer" -> text
    [] out = "error" -> Str_errorPrefix \o text
    [] OTHER -> << >>

\* what askOllama returns for a reply that is not a 401
chatAnswer(out, text) ==
  CASE out = "answer" -> text
    [] out = "error" -> Str_errorPrefix \o text
    [] OTHER -> Str_sorry

\* askOllama from its await on, then the rest of handleSend or
\* handleQuestionClick
chatResponse(i, out, text) ==
  /\ net[i].kind = "chat"
  /\ UNCHANGED << uploads, form >>
  /\ out \in { "401", "answer", "error", "badjson", "throw" }
  /\ CASE out = "answer" -> text \in Answers
       [] out = "error" -> text \in Errors
       [] OTHER -> text = << >>
  /\ isLoading' = FALSE
  /\ IF out = "401"
     THEN /\ unauthorized(i)
          /\ isLoggedIn' = FALSE
          /\ UNCHANGED messages
     ELSE /\ messages' = appendAnswer(messages, net[i].question, chatAnswer(out, text))
          /\ net' = Remove(net, i)
          /\ UNCHANGED << route, token, user, navLoggedIn, homeLoggedIn, isLoggedIn >>
  /\ UNCHANGED << meetings, selectedMeeting, selectedTranscript, suggestedQuestions,
                  input >>
  /\ UNCHANGED loginTimers

(***************************************************************************)
(* Home.                                                                   *)
(***************************************************************************)
\* the "View Demo" and "Upload Meeting" buttons: handleProtectedAction(e, path)
\* of Home, then the mount of the page it navigates to
Home_handleProtectedAction(path) ==
  /\ route = "/"
  /\ IF ~homeLoggedIn
     THEN /\ UNCHANGED << token, user >>
          /\ navigate("/login", net)
          /\ viewGone
          /\ uploadsGone
          /\ UNCHANGED << loginTimers, form >>
     ELSE \/ path = "/chatbot" /\ MountChatbot
          \/ path = "/meetings" /\ MountMeetings

(***************************************************************************)
(* Meetings: the handlers of the user's actions.                           *)
(***************************************************************************)
\* 'Selected: '
Str_selectedPrefix ==
  << "S", "e", "l", "e", "c", "t", "e", "d", ":", " " >>

\* 'Please select a file first'
Str_selectFirst ==
  << "P", "l", "e", "a", "s", "e", " ", "s", "e", "l", "e", "c", "t", " ", "a", " ", "f", "i",
     "l", "e", " ", "f", "i", "r", "s", "t" >>

\* 'Uploading and transcribing...'
Str_uploading ==
  << "U", "p", "l", "o", "a", "d", "i", "n", "g", " ", "a", "n", "d", " ", "t", "r", "a", "n",
     "s", "c", "r", "i", "b", "i", "n", "g", ".", ".", "." >>

\* 'Server error'
Str_serverError ==
  << "S", "e", "r", "v", "e", "r", " ", "e", "r", "r", "o", "r" >>

\* the white check mark U+2705, then ' Transcription complete!'
Str_complete ==
  << "U+2705", " ", "T", "r", "a", "n", "s", "c", "r", "i", "p", "t", "i", "o", "n", " ", "c", "o",
     "m", "p", "l", "e", "t", "e", "!" >>

\* 'Please enter a meeting URL'
Str_enterUrl ==
  << "P", "l", "e", "a", "s", "e", " ", "e", "n", "t", "e", "r", " ", "a", " ", "m", "e", "e",
     "t", "i", "n", "g", " ", "U", "R", "L" >>

\* the robot face U+1F916, then ' Starting Echo Note Bot...'
Str_starting ==
  << "U+1F916", " ", "S", "t", "a", "r", "t", "i", "n", "g", " ", "E", "c", "h", "o", " ", "N", "o",
     "t", "e", " ", "B", "o", "t", ".", ".", "." >>

\* the white check mark U+2705, then ' '
Str_recordedPrefix ==
  << "U+2705", " " >>

\* '. Transcript will appear in your meetings after completion.'
Str_recordedSuffix ==
  << ".", " ", "T", "r", "a", "n", "s", "c", "r", "i", "p", "t", " ", "w", "i", "l", "l", " ",
     "a", "p", "p", "e", "a", "r", " ", "i", "n", " ", "y", "o", "u", "r", " ", "m", "e", "e",
     "t", "i", "n", "g", "s", " ", "a", "f", "t", "e", "r", " ", "c", "o", "m", "p", "l", "e",
     "t", "i", "o", "n", "." >>

\* the cross mark U+274C, then ' Error: '
Str_recordErrorPrefix ==
  << "U+274C", " ", "E", "r", "r", "o", "r", ":", " " >>

\* the file the user picks in the file dialog: 'a.mp3'
FileNames == { << "a", ".", "m", "p", "3" >> }

\* what the user types as the meeting URL
MeetingUrls == { << >>, << " " >>, << "u" >> }

\* what the user types as the name of the recorded meeting
BotNames == { << >>, << "n" >> }

\* 'x': error.message of a fetch that throws or of a body that is not JSON
X_text ==
  << "x" >>

\* fileName.replace(/\.[^/.]+$/, "")
withoutExtension(fileName) ==
  LET dots == { p \in 1..Len(fileName) :
                  /\ fileName[p] = "."
                  /\ p < Len(fileName)
                  /\ \A q \in (p + 1)..Len(fileName) : fileName[q] \notin { "/", "." } }
  IN  IF dots = { } THEN fileName
      ELSE SubSeq(fileName, 1, (CHOOSE p \in dots : TRUE) - 1)

\* handleProtectedAction(e) of Meetings: "true", "false" after navigate('/login'),
\* or the TypeError of e.preventDefault() when no event is passed
Meetings_handleProtectedAction(e) ==
  IF meetingsLoggedIn THEN "true"
  ELSE IF e THEN "false" ELSE "TypeError"

\* the branch of a handler of Meetings whose handleProtectedAction call
\* returned false
Meetings_redirectToLogin ==
  /\ UNCHANGED << token, user >>
  /\ navigate("/login", net)
  /\ UNCHANGED << uploads, loginTimers >>

\* a handler of Meetings that ends in an exception before it changes anything
Meetings_aborted ==
  UNCHANGED << route, token, user, navLoggedIn, homeLoggedIn, net, loginTimers, uploads >>

handleFileSelect(fileName) ==
  /\ selectedFile' = fileName
  /\ meetingName' = withoutExtension(fileName)
  /\ uploadStatus' = Str_selectedPrefix \o fileName
  /\ UNCHANGED << meetingsLoggedIn, meetingsTranscript, isUploading, meetingUrl,
                  meetingBotName, isRecording, recordStatus >>

\* the "Choose File" button, off while isUploading, then the file dialog
chooseFile(fileName) ==
  /\ route = "/meetings"
  /\ ~isUploading
  /\ UNCHANGED << view, form >>
  /\ IF Meetings_handleProtectedAction(TRUE) = "true"
     THEN /\ handleFileSelect(fileName)
          /\ UNCHANGED << route, token, user, navLoggedIn, homeLoggedIn, net, loginTimers >>
     ELSE Meetings_redirectToLogin

\* onChange of the two inputs of "Record Live Meeting"
setMeetingUrl(value) ==
  /\ route = "/meetings"
  /\ value # meetingUrl
  /\ meetingUrl' = value
  /\ UNCHANGED << route, token, user, navLoggedIn, homeLoggedIn, net, loginTimers >>
  /\ UNCHANGED << meetingsLoggedIn, selectedFile, meetingName, meetingsTranscript,
                  isUploading, uploadStatus, meetingBotName, isRecording, recordStatus >>
  /\ UNCHANGED << view, form >>

setMeetingBotName(value) ==
  /\ route = "/meetings"
  /\ value # meetingBotName
  /\ meetingBotName' = value
  /\ UNCHANGED << route, token, user, navLoggedIn, homeLoggedIn, net, loginTimers >>
  /\ UNCHANGED << meetingsLoggedIn, selectedFile, meetingName, meetingsTranscript,
                  isUploading, uploadStatus, meetingUrl, isRecording, recordStatus >>
  /\ UNCHANGED << view, form >>

\* the "Upload & Transcribe" button, shown once a file is selected and off
\* while isUploading
handleUpload ==
  /\ route = "/meetings"
  /\ selectedFile # NoFile
  /\ ~isUploading
  /\ UNCHANGED << view, form >>
  /\ CASE Meetings_handleProtectedAction(FALSE) = "TypeError" -> Meetings_aborted
       [] Meetings_handleProtectedAction(FALSE) = "false" -> Meetings_redirectToLogin
       [] OTHER ->
            /\ UNCHANGED << route, token, user, navLoggedIn, homeLoggedIn, loginTimers >>
            /\ UNCHANGED << meetingsLoggedIn, selectedFile, meetingName, meetingUrl,
                            meetingBotName, isRecording, recordStatus >>
            /\ IF selectedFile = NoFile
               THEN /\ uploadStatus' = Str_selectFirst
                    /\ UNCHANGED << meetingsTranscript, isUploading, net >>
               ELSE /\ Len(net) < MaxInFlight
                    /\ isUploading' = TRUE
                    /\ uploadStatus' = Str_uploading
                    /\ meetingsTranscript' = << >>
                    /\ net' = Append(net, [kind |-> "upload", live |-> TRUE])

\* the "Start Recording Bot" button, off while isRecording
handleRecordMeeting ==
  /\ route = "/meetings"
  /\ ~isRecording
  /\ UNCHANGED << view, form >>
  /\ CASE Meetings_handleProtectedAction(FALSE) = "TypeError" -> Meetings_aborted
       [] Meetings_handleProtectedAction(FALSE) = "false" -> Meetings_redirectToLogin
       [] OTHER ->
            /\ UNCHANGED << route, token, user, navLoggedIn, homeLoggedIn, loginTimers >>
            /\ UNCHANGED << meetingsLoggedIn, selectedFile, meetingName,
                            meetingsTranscript, isUploading, uploadStatus, meetingUrl,
                            meetingBotName >>
            /\ IF trim(meetingUrl) = << >>
               THEN /\ recordStatus' = Str_enterUrl
                    /\ UNCHANGED << isRecording, net >>
               ELSE /\ Len(net) < MaxInFlight
                    /\ isRecording' = TRUE
                    /\ recordStatus' = Str_starting
                    /\ net' = Append(net, [kind |-> "record", live |-> TRUE])

(***************************************************************************)
(* Meetings: the code that runs once a fetch has resolved.                 *)
(***************************************************************************)
\* handleUpload from its await on
handleUploadResponse(i, out, text) ==
  /\ net[i].kind = "upload"
  /\ out \in { "401", "ok", "badjson", "status", "throw" }
  /\ CASE out = "ok" -> text \in AnyTranscript
       [] out = "status" -> text \in Errors \cup { Str_serverError }
       [] out = "401" -> text = << >>
       [] OTHER -> text = X_text
  /\ isUploading' = FALSE
  /\ IF out = "401"
     THEN /\ unauthorized(i)
          /\ meetingsLoggedIn' = FALSE
          /\ UNCHANGED << selectedFile, meetingsTranscript, uploadStatus >>
     ELSE /\ meetingsTranscript' = IF out = "ok" THEN text ELSE meetingsTranscript
          /\ uploadStatus' = IF out = "ok" THEN Str_complete ELSE Str_errorPrefix \o text
          /\ selectedFile' = IF out = "ok" THEN NoFile ELSE selectedFile
          /\ net' = Remove(net, i)
          /\ UNCHANGED << route, token, user, navLoggedIn, homeLoggedIn, meetingsLoggedIn >>
  /\ UNCHANGED << meetingName, meetingUrl, meetingBotName, isRecording, recordStatus >>
  /\ UNCHANGED << view, form, loginTimers >>

\* handleRecordMeeting from its await on
handleRecordMeetingResponse(i, out, text) ==
  /\ net[i].kind = "record"
  /\ out \in { "401", "ok", "badjson", "status", "throw" }
  /\ CASE out = "ok" -> text = A_text
       [] out = "status" -> text \in Errors
       [] out = "401" -> text = << >>
       [] OTHER -> text = X_text
  /\ isRecording' = FALSE
  /\ IF out = "401"
     THEN /\ unauthorized(i)
          /\ meetingsLoggedIn' = FALSE
          /\ UNCHANGED << recordStatus, meetingUrl, meetingBotName >>
     ELSE /\ recordStatus' = IF out = "ok"
                             THEN Str_recordedPrefix \o text \o Str_recordedSuffix
                             ELSE Str_recordErrorPrefix \o text
          /\ meetingUrl' = IF out = "ok" THEN << >> ELSE meetingUrl
          /\ meetingBotName' = IF out = "ok" THEN << >> ELSE meetingBotName
          /\ net' = Remove(net, i)
          /\ UNCHANGED << route, token, user, navLoggedIn, homeLoggedIn, meetingsLoggedIn >>
  /\ UNCHANGED << selectedFile, meetingName, meetingsTranscript, isUploading, uploadStatus >>
  /\ UNCHANGED << view, form, loginTimers >>

(***************************************************************************)
(* The specification.                                                      *)
(***************************************************************************)
Next ==
  \/ MountChatbot
  \/ \E target \in { "/", "/login" } : FollowLink(target)
  \/ handleLogout
  \/ handleLogin
  \/ \E i \in 1..Len(net) : \E out \in { "ok", "rejected", "throw" } :
       handleLoginResponse(i, out)
  \/ loginRedirect
  \/ \E value \in Inputs : setInput(value)
  \/ onFocus
  \/ handleSend
  \/ \E i \in 1..Len(suggestedQuestions) : handleQuestionClick(suggestedQuestions[i])
  \/ handleShowTranscript
  \/ \E value \in MeetingIds \cup { NoMeeting } : handleMeetingChange(value)
  \/ \E i \in 1..Len(net) : \E out \in { "401", "other" } : staleReply(i, out)
  \/ \E i \in 1..Len(net) : \E out \in { "401", "ok", "badjson", "status", "throw" } :
       \E listed \in { << >>, BackendMeetings } : fetchUserMeetings(i, out, listed)
  \/ \E i \in 1..Len(net) : \E out \in { "401", "ok", "badjson", "status", "throw" } :
       \E transcript \in AnyTranscript : fetchTranscript(i, out, transcript)
  \/ \E i \in 1..Len(net) : \E out \in { "401", "answer", "error", "badjson", "throw" } :
       \E text \in Answers \cup Errors : chatResponse(i, out, text)
  \/ MountMeetings
  \/ \E path \in { "/chatbot", "/meetings" } : Home_handleProtectedAction(path)
  \/ \E fileName \in FileNames : chooseFile(fileName)
  \/ \E value \in MeetingUrls : setMeetingUrl(value)
  \/ \E value \in BotNames : setMeetingBotName(value)
  \/ handleUpload
  \/ handleRecordMeeting
  \/ \E i \in 1..Len(net) : \E out \in { "401", "ok", "badjson", "status", "throw" } :
       \E text \in AnyTranscript \cup Errors \cup { Str_serverError, X_text } :
         handleUploadResponse(i, out, text)
  \/ \E i \in 1..Len(net) : \E out \in { "401", "ok", "badjson", "status", "throw" } :
       \E text \in { << >>, A_text, X_text } \cup Errors :
         handleRecordMeetingResponse(i, out, text)

Spec == Init /\ [][Next]_vars

(***************************************************************************)
(* The steps the properties below speak of.                                *)
(***************************************************************************)
IsPrefix(a, b) == Len(a) <= Len(b) /\ SubSeq(b, 1, Len(a)) = a

\* a step of a Chatbot that stays mounted
Stays == route = "/chatbot" /\ route' = "/chatbot"

\* handleSend gets past handleProtectedAction and the blank test
Sends == handleSend /\ handleProtectedAction /\ trim(input) # << >>

\* handleQuestionClick(question) gets past handleProtectedAction
Clicks(question) == handleQuestionClick(question) /\ handleProtectedAction

\* the log grows by the messages of `added`, in order
Appends(added) == messages' = messages \o added

(***************************************************************************)
(* C1: while a Chatbot stays mounted every step leaves the log as it is,   *)
(* appends messages at its end (the messages already there keep position,  *)
(* sender and text), or, being the reply to a transcript request, replaces *)
(* it by exactly one bot greeting.                                         *)
(***************************************************************************)
C1_AppendOnly ==
  [][Stays =>
       \/ IsPrefix(messages, messages')
       \/ /\ \E i \in 1..Len(net) : \E transcript \in AnyTranscript :
               fetchTranscript(i, "ok", transcript)
          /\ Len(messages') = 1
          /\ messages'[1].sender = "bot"
          /\ \E id \in MeetingIds :
               messages'[1].text = Str_loadedPrefix \o MeetingName(id) \o Str_loadedSuffix]_vars

\* a log that was replaced by a greeting and has grown again
C1_Witness ==
  /\ route = "/chatbot"
  /\ Len(messages) >= 3
  /\ \E id \in MeetingIds : messages[1] = LoadedMessage(MeetingName(id))
  /\ messages[2].sender = "user"

(***************************************************************************)
(* C2: with a transcript loaded, a question the classifier does not flag   *)
(* appends one user message and sends one request to the chat service, and *)
(* every reply that is not a 401 appends exactly one bot message, the one  *)
(* carrying the answer when there is one.                                  *)
(***************************************************************************)
C2_OneBotMessagePerReply ==
  [][/\ \A question \in Questions :
          /\ (Sends /\ question = input) \/ Clicks(question)
          /\ selectedTranscript # << >>
          /\ ~isTranscriptQuery(question)
          => /\ Appends(<< UserMessage(question) >>)
             /\ Len(net') = Len(net) + 1
             /\ net'[Len(net')].kind = "chat"
     /\ \A i \in 1..Len(net) : \A out \in { "answer", "error", "badjson", "throw" } :
          \A text \in Answers \cup Errors :
            chatResponse(i, out, text)
            => /\ Len(messages') = Len(messages) + 1
               /\ IsPrefix(messages, messages')
               /\ messages'[Len(messages')].sender = "bot"
               /\ out = "answer" => messages'[Len(messages')].text = text]_vars

(***************************************************************************)
(* C3: with no transcript loaded every question that is not blank, flagged *)
(* by the classifier or not, appends the user message and one bot message  *)
(* with the "Please select a meeting" text, sends nothing and leaves       *)
(* isLoading alone.                                                        *)
(***************************************************************************)
C3_NoTranscriptFallback ==
  [][\A question \in Questions :
       /\ (Sends /\ question = input) \/ Clicks(question)
       /\ selectedTranscript = << >>
       => /\ Appends(<< UserMessage(question), BotMessage(Str_pleaseSelect) >>)
          /\ net' = net
          /\ isLoading' = isLoading]_vars

\* the fallback answer to a flagged question
C3_Witness ==
  /\ route = "/chatbot"
  /\ selectedTranscript = << >>
  /\ Len(messages) = 3
  /\ messages[2] = UserMessage(Q_flagged)
  /\ messages[3] = BotMessage(Str_pleaseSelect)
  /\ net = << >>

(***************************************************************************)
(* C4: with a transcript loaded, a question the classifier flags appends   *)
(* the user message and then one bot message for each paragraph the        *)
(* segmenter makes of the loaded transcript, in the segmenter's order and  *)
(* with its texts.                                                         *)
(***************************************************************************)
C4_ExpandsLoadedTranscript ==
  [][\A question \in Questions :
       /\ (Sends /\ question = input) \/ Clicks(question)
       /\ selectedTranscript # << >>
       /\ isTranscriptQuery(question)
       => Appends(<< UserMessage(question) >>
                    \o BotMessages(splitIntoSpeakerParagraphs(selectedTranscript)))]_vars

(***************************************************************************)
(* C5: a question the classifier flags sends nothing and leaves isLoading  *)
(* alone, and a question that does send a request sends one and appends    *)
(* nothing but its user message: no question gets both an expansion and a  *)
(* round trip.                                                             *)
(***************************************************************************)
C5_FlaggedNeverFetches ==
  [][\A question \in Questions :
       (Sends /\ question = input) \/ Clicks(question)
       => /\ isTranscriptQuery(question) => net' = net /\ isLoading' = isLoading
          /\ net' # net => /\ Len(net') = Len(net) + 1
                           /\ Appends(<< UserMessage(question) >>)]_vars

\* a flagged question answered from the loaded transcript, nothing in flight
C5_Witness ==
  /\ route = "/chatbot"
  /\ selectedTranscript # << >>
  /\ Len(messages) >= 3
  /\ messages[2] = UserMessage(Q_flagged)
  /\ messages[3].sender = "bot"
  /\ net = << >>
  /\ ~isLoading

C7_LogAsBeforeQuestion ==
  [][\A i \in 1..Len(net) :
       chatResponse(i, "401", << >>)
       => /\ ~token' /\ ~user'
          /\ route' = "/login"
          /\ messages' = net[i].messages]_vars

(***************************************************************************)
(* C7, amended: a 401 from the chat service removes the token and the      *)
(* user, navigates to /login, clears isLoggedIn and isLoading and appends  *)
(* no bot message: the log stays as the reply found it, the user message   *)
(* of the question included.                                               *)
(***************************************************************************)
C7_NoBotMessageOn401 ==
  [][\A i \in 1..Len(net) :
       chatResponse(i, "401", << >>)
       => /\ ~token' /\ ~user'
          /\ route' = "/login"
          /\ ~isLoggedIn' /\ ~isLoading'
          /\ messages' = messages]_vars

\* the 401 has been handled: the question is the last message of the log
C7_Witness ==
  /\ route = "/login"
  /\ ~token /\ ~user
  /\ ~isLoggedIn /\ ~isLoading
  /\ Len(messages) >= 2
  /\ messages[Len(messages)] = UserMessage(Q_plain)

(***************************************************************************)
(* C8: from the 401 on, while no login has stored a token again, no step   *)
(* sends a request other than the login request, and no step of a mounted  *)
(* Chatbot, a send action or the reply to a request that was in flight,    *)
(* changes the log.                                                        *)
(***************************************************************************)
C8_NoSendsUntilLogin ==
  [][~token /\ ~token'
       => /\ \/ net' = net
             \/ Len(net') < Len(net)
             \/ net' = Append(net, [kind |-> "login", live |-> FALSE])
          /\ Stays => messages' = messages]_vars

\* the 401 has been handled while another request was in flight
C8_Witness ==
  /\ route = "/login"
  /\ ~token
  /\ ~isLoggedIn /\ ~isLoading
  /\ messages[Len(messages)].sender = "user"
  /\ net # << >>
  /\ \A i \in 1..Len(net) : net[i] = StaleRequest

(***************************************************************************)
(* C9, as the specification states it: once a user interaction has cleared *)
(* the suggested questions, the reply to a transcript request that arrives *)
(* afterwards does not bring them back.  Focusing the input is possible in *)
(* the states named here and leaves them as they are, so each of them is a *)
(* state the user has just interacted in.                                  *)
(***************************************************************************)
C9_LatchedAgainstReplies ==
  [][/\ route = "/chatbot"
     /\ handleProtectedAction
     /\ ~isLoading
     /\ suggestedQuestions = << >>
     /\ \E i \in 1..Len(net) : \E out \in { "401", "ok", "badjson", "status", "throw" } :
          \E transcript \in AnyTranscript : fetchTranscript(i, out, transcript)
     => suggestedQuestions' = << >>]_vars

(***************************************************************************)
(* C9, amended: focusing the input, sending, clicking a suggestion and     *)
(* showing the transcript clear the suggested questions, and once cleared  *)
(* they stay empty until the user selects "no meeting" or an OK reply to a *)
(* transcript request is processed.                                        *)
(***************************************************************************)
C9_LatchedUntilLoad ==
  [][/\ /\ handleProtectedAction
        /\ \/ onFocus
           \/ Sends
           \/ \E question \in Questions : Clicks(question)
           \/ handleShowTranscript
        => suggestedQuestions' = << >>
     /\ Stays /\ suggestedQuestions = << >> /\ suggestedQuestions' # << >>
        => \/ handleMeetingChange(NoMeeting)
           \/ \E i \in 1..Len(net) : \E transcript \in AnyTranscript :
                fetchTranscript(i, "ok", transcript)]_vars

\* the suggestions are cleared, the user has sent a question, and the reply to
\* a transcript request is still to come
C9_Witness ==
  /\ route = "/chatbot"
  /\ suggestedQuestions = << >>
  /\ Len(messages) >= 2
  /\ messages[2].sender = "user"
  /\ \E i \in 1..Len(net) : net[i].kind = "transcript"

(***************************************************************************)
(* C10, as the specification states it: selecting "no meeting" sets the    *)
(* four default questions and clears the transcript, and every OK reply to *)
(* a transcript request sets the four context questions, for an empty or   *)
(* missing transcript too.                                                 *)
(***************************************************************************)
C10_ContextOnEveryLoad ==
  [][/\ handleMeetingChange(NoMeeting) /\ handleProtectedAction
        => /\ suggestedQuestions' = initialQuestions
           /\ Len(suggestedQuestions') = 4
           /\ selectedTranscript' = << >>
     /\ \A i \in 1..Len(net) : \A transcript \in AnyTranscript :
          fetchTranscript(i, "ok", transcript)
          => /\ suggestedQuestions' = contextQuestions
             /\ Len(suggestedQuestions') = 4]_vars

(***************************************************************************)
(* C10, amended: selecting "no meeting" sets the four default questions    *)
(* and clears the transcript; an OK reply to a transcript request sets the *)
(* four context questions when its transcript is not empty and the four    *)
(* default questions when it is empty or missing.                          *)
(***************************************************************************)
C10_SuggestionsFollowTranscript ==
  [][/\ handleMeetingChange(NoMeeting) /\ handleProtectedAction
        => /\ suggestedQuestions' = initialQuestions
           /\ Len(suggestedQuestions') = 4
           /\ selectedTranscript' = << >>
     /\ \A i \in 1..Len(net) : \A transcript \in AnyTranscript :
          fetchTranscript(i, "ok", transcript)
          => /\ selectedTranscript' = transcript
             /\ Len(suggestedQuestions') = 4
             /\ suggestedQuestions' =
                  IF transcript = << >> THEN initialQuestions ELSE contextQuestions]_vars

\* a meeting whose transcript came back empty: greeted, nothing loaded, the
\* default questions on show
C10_Witness ==
  /\ route = "/chatbot"
  /\ selectedMeeting # NoMeeting
  /\ net = << >>
  /\ messages = << LoadedMessage(MeetingName(selectedMeeting)) >>
  /\ selectedTranscript = << >>
  /\ suggestedQuestions = initialQuestions

(***************************************************************************)
(* The segmenter on its own: a Chatbot with some transcript loaded, and    *)
(* the "Show full transcript" button, which appends what                   *)
(* splitIntoSpeakerParagraphs makes of it.                                 *)
(***************************************************************************)
\* the speaker labels of the transcripts made of turns
SegLabels ==
  { << "A", "l" >>,
    << "J", "o", "h", "n" >>,
    << "S", "p", "e", "a", "k", "e", "r", " ", "1" >> }

\* what the speakers say
SegBodies ==
  { << "H", "i" >>,
    << "H", "e", "l", "l", "o", " ", "t", "h", "e", "r", "e" >>,
    << "o", "k", "." >> }

\* one turn: the label, a colon, a space and the body
Turn(label, body) == label \o << ":", " " >> \o body

SegTurns == { Turn(label, body) : label \in SegLabels, body \in SegBodies }

\* the example of the Segmenter's contract
SegExample ==
  << << "J", "o", "h", "n", ":", " ", "H", "i" >>,
     << "S", "a", "r", "a", "h", ":", " ", "H", "e", "l", "l", "o", " ", "t", "h", "e", "r", "e" >>,
     << "J", "o", "h", "n", ":", " ", "L", "e", "t", "'", "s", " ", "s", "t", "a", "r", "t" >> >>

\* the transcripts made of turns, as the lists of their turns
SegTurnLists == { << a, b >> : a \in SegTurns, b \in SegTurns } \cup { SegExample }

\* the turns of a list of two or three, one per line
JoinLines(turns) ==
  IF Len(turns) = 2
  THEN turns[1] \o << "\n" >> \o turns[2]
  ELSE turns[1] \o << "\n" >> \o turns[2] \o << "\n" >> \o turns[3]

\* transcripts of other shapes: white space only, blank lines, one label
SegPlainTexts ==
  { << " " >>,
    << "\n" >>,
    << " ", "\n", " " >>,
    << "\t" >>,
    << "h", "e", "l", "l", "o" >>,
    << "a", "\n", "\n", "b" >>,
    << "a", "\n", "\n", "\n", "b", "\n", "c" >>,
    << " ", "a", "\r", "\n", "\r", "\n", "b", " " >>,
    << "A", "l", ":", " ", "x", "\n", "\n", "B", "o", ":", " ", "y" >>,
    << "x", "\n", "\n", "y", ":", " ", "z" >> }

\* data.transcript of the meeting that is loaded
SegTexts == { JoinLines(turns) : turns \in SegTurnLists } \cup SegPlainTexts

\* a logged-in Chatbot that has loaded meeting 1 with one of these transcripts
SegInit ==
  /\ route = "/chatbot"
  /\ token = TRUE
  /\ user = TRUE
  /\ navLoggedIn = TRUE
  /\ isLoggedIn = TRUE
  /\ meetings = BackendMeetings
  /\ selectedMeeting = 1
  /\ selectedTranscript \in SegTexts
  /\ suggestedQuestions = contextQuestions
  /\ messages = << LoadedMessage(MeetingName(1)) >>
  /\ input = << >>
  /\ isLoading = FALSE
  /\ net = << >>
  /\ loginTimers = 0
  /\ homeLoggedIn = FALSE
  /\ uploadsStart
  /\ formStart

SegNext == handleShowTranscript

SegmenterSpec == SegInit /\ [][SegNext]_vars

\* the button is pressed and handleShowTranscript gets past its two returns
ShowsTranscript == handleShowTranscript /\ handleProtectedAction

(***************************************************************************)
(* C11: a transcript of two or more turns, each starting with a label and  *)
(* on a line of its own, gives one paragraph for each turn, the i-th       *)
(* paragraph being the i-th turn with its whole label.                     *)
(***************************************************************************)
C11_OneParagraphPerTurn ==
  [][\A turns \in SegTurnLists :
       ShowsTranscript /\ selectedTranscript = JoinLines(turns)
       => Appends(BotMessages(turns))]_vars

\* the messages a step has appended to the log
Appended == SubSeq(messages', Len(messages) + 1, Len(messages'))

\* s has a character that is not white space
hasText(s) == \E i \in 1..Len(s) : s[i] \notin WhiteSpace

(***************************************************************************)
(* C12, as the specification states it: every transcript of one character  *)
(* or more, white space only included, gives at least one paragraph, and   *)
(* no paragraph is the empty string.                                       *)
(***************************************************************************)
C12_NeverEmpty ==
  [][ShowsTranscript /\ Len(selectedTranscript) >= 1
       => /\ IsPrefix(messages, messages')
          /\ Len(Appended) >= 1
          /\ \A i \in 1..Len(Appended) : Appended[i].text # << >>]_vars

(***************************************************************************)
(* C12, amended: a transcript with a character that is not white space     *)
(* gives at least one paragraph and no paragraph is the empty string; a    *)
(* transcript of white space only gives no paragraph at all.               *)
(***************************************************************************)
C12_NeverEmptyForText ==
  [][ShowsTranscript
       => /\ IsPrefix(messages, messages')
          /\ IF hasText(selectedTranscript)
             THEN /\ Len(Appended) >= 1
                  /\ \A i \in 1..Len(Appended) : Appended[i].text # << >>
             ELSE Appended = << >>]_vars

\* the button has been pressed on a transcript that is one space: the
\* suggestions are gone and the log has not grown
C12_Witness ==
  /\ selectedTranscript = << " " >>
  /\ suggestedQuestions = << >>
  /\ messages = << LoadedMessage(MeetingName(1)) >>

\* the texts of a sequence of messages, one after the other
RECURSIVE concatTexts(_)
concatTexts(log) ==
  IF log = << >> THEN << >> ELSE Head(log).text \o concatTexts(Tail(log))

\* s without its white space
withoutWhiteSpace(s) == SelectSeq(s, LAMBDA c : c \notin WhiteSpace)

(***************************************************************************)
(* C13: the paragraphs, one after the other and with all white space       *)
(* deleted, are the transcript with all white space deleted: nothing is    *)
(* dropped, doubled or moved, with labels and with blank lines alike.      *)
(***************************************************************************)
C13_KeepsAllText ==
  [][ShowsTranscript
       => /\ IsPrefix(messages, messages')
          /\ withoutWhiteSpace(concatTexts(Appended)) = withoutWhiteSpace(selectedTranscript)]_vars

\* the button has been pressed on a transcript that the blank lines divide
\* and on one that the labels divide
C13_Witness ==
  \/ /\ selectedTranscript = << " ", "a", "\r", "\n", "\r", "\n", "b", " " >>
     /\ Len(messages) = 3
     /\ messages[2].text = << "a" >>
     /\ messages[3].text = << "b" >>
  \/ /\ selectedTranscript = JoinLines(SegExample)
     /\ Len(messages) > 4

(***************************************************************************)
(* The classifier on its own: a Chatbot with a transcript loaded and some  *)
(* text typed into the input, and the Send button, which expands the       *)
(* transcript or sends the question as isTranscriptQuery and the test of   *)
(* askOllama decide.                                                       *)
(***************************************************************************)
\* the white space typed before and after the text
ClsPads ==
  { << >>,
    << " " >>,
    << " ", " " >> }

\* the texts typed: triggers and misspellings in several cases, inside longer
\* questions, and questions without any
ClsTexts ==
  { << >>,
    << "s", "h", "o", "w", " ", "t", "r", "a", "n", "s", "c", "r", "i", "p", "t" >>,
    << "S", "h", "o", "w", " ", "T", "r", "a", "n", "s", "c", "r", "i", "p", "t" >>,
    << "S", "H", "O", "W", " ", "T", "R", "A", "N", "S", "C", "R", "I", "P", "T" >>,
    << "t", "r", "a", "n", "s", "c", "i", "o", "t" >>,
    << "T", "r", "a", "n", "s", "c", "i", "p", "t", "?" >>,
    << "t", "r", "a", "n", "s" >>,
    << "T", "R", "A", "N", "S" >>,
    << "t", "r", "a", "n", "s", "c", "r", "i", "p", "t", "s" >>,
    << "a", " ", "t", "r", "a", "n", "s", "l", "a", "t", "i", "o", "n" >>,
    << "I", "s", " ", "a", " ", "T", "r", "a", "n", "s", "l", "a", "t", "i", "o", "n", " ", "p", "l", "a", "n", "n", "e", "d", "?" >>,
    << "s", "h", "o", "w", " ", "f", "u", "l", "l" >>,
    << "S", "h", "o", "w", " ", "m", "e", " ", "t", "h", "e", " ", "T", "r", "a", "n", "s", "c", "r", "i", "p", "t", " ", "p", "l", "e", "a", "s", "e" >>,
    << "t", "r", "a", "n", " ", "s" >>,
    << "h", "i" >>,
    << "W", "h", "o", " ", "s", "p", "o", "k", "e", "?" >> }

\* the value of the chat input
ClsInputs == { before \o text \o after : before \in ClsPads, text \in ClsTexts, after \in ClsPads }

\* a logged-in Chatbot that has loaded meeting 1, with one of these typed in
ClsInit ==
  /\ route = "/chatbot"
  /\ token = TRUE
  /\ user = TRUE
  /\ navLoggedIn = TRUE
  /\ isLoggedIn = TRUE
  /\ meetings = BackendMeetings
  /\ selectedMeeting = 1
  /\ selectedTranscript = T_labelled
  /\ suggestedQuestions = contextQuestions
  /\ messages = << LoadedMessage(MeetingName(1)) >>
  /\ input \in ClsInputs
  /\ isLoading = FALSE
  /\ net = << >>
  /\ loginTimers = 0
  /\ homeLoggedIn = FALSE
  /\ uploadsStart
  /\ formStart

ClsNext == handleSend

ClassifierSpec == ClsInit /\ [][ClsNext]_vars

\* the questions of a state: the one typed in and the ones sent
Asked == { input } \cup { messages[i].text : i \in { j \in 1..Len(messages) : messages[j].sender = "user" } }

(***************************************************************************)
(* C14: isTranscriptQuery gives a question the answer it gives the same    *)
(* question trimmed and in lower case, so that "Show Transcript",          *)
(* "  show transcript  " and "SHOW TRANSCRIPT" are classified alike.       *)
(***************************************************************************)
C14_TrimAndCaseInsensitive ==
  \A q \in Asked : isTranscriptQuery(q) = isTranscriptQuery(toLowerCase(trim(q)))

\* "  SHOW TRANSCRIPT  " has been sent and the transcript expanded
C14_Witness ==
  /\ Len(messages) > 2
  /\ messages[2].sender = "user"
  /\ messages[2].text # toLowerCase(trim(messages[2].text))
  /\ toLowerCase(trim(messages[2].text)) = triggers[1]
  /\ messages[3].sender = "bot"
  /\ net = << >>

\* s contains a trigger phrase or a listed misspelling
containsTrigger(s) ==
  \/ \E i \in 1..Len(triggers) : includes(s, triggers[i])
  \/ \E i \in 1..Len(misspellings) : includes(s, misspellings[i])

(***************************************************************************)
(* C15: isTranscriptQuery is true of exactly the questions whose text in   *)
(* lower case contains a trigger phrase or a listed misspelling, "trans"   *)
(* inside another word included, and false of the empty string; a question *)
(* that has been sent is in flight to the chat service exactly when it     *)
(* contains none.                                                          *)
(***************************************************************************)
C15_ExactlyTheTriggers ==
  /\ \A q \in Asked : isTranscriptQuery(q) <=> containsTrigger(toLowerCase(q))
  /\ ~isTranscriptQuery(<< >>)
  /\ \A i \in 1..Len(messages) :
       messages[i].sender = "user"
       => (isTranscriptQuery(messages[i].text) <=> net = << >>)

\* a question about a translation has been sent and answered with the
\* transcript
C15_Witness ==
  /\ Len(messages) > 2
  /\ messages[2].sender = "user"
  /\ ~includes(toLowerCase(messages[2].text), Str_transcript)
  /\ includes(toLowerCase(messages[2].text), << "t", "r", "a", "n", "s", "l", "a", "t", "i", "o", "n" >>)
  /\ messages[3].sender = "bot"
  /\ net = << >>

(***************************************************************************)
(* C16: a question the classifier does not flag leaves the transcript, the *)
(* selected meeting and the list of meetings as they are, at its           *)
(* submission and at its reply, and it grows the log by two messages: the  *)
(* user message at the submission, and one bot message, at the submission  *)
(* when nothing is sent and at the reply of the chat service otherwise.    *)
(***************************************************************************)
C16_TwoMessagesPerQuestion ==
  [][/\ \A question \in Questions :
          /\ (Sends /\ question = input) \/ Clicks(question)
          /\ ~isTranscriptQuery(question)
          => /\ UNCHANGED << selectedTranscript, selectedMeeting, meetings >>
             /\ IsPrefix(Append(messages, UserMessage(question)), messages')
             /\ Len(messages') = Len(messages) + (IF net' = net THEN 2 ELSE 1)
     /\ \A i \in 1..Len(net) : \A out \in { "answer", "error", "badjson", "throw" } :
          \A text \in Answers \cup Errors :
            chatResponse(i, out, text)
            => /\ UNCHANGED << selectedTranscript, selectedMeeting, meetings >>
               /\ IsPrefix(messages, messages')
               /\ Len(messages') = Len(messages) + 1
               /\ messages'[Len(messages')].sender = "bot"]_vars

\* the chat and transcript requests of the Chatbot that have not resolved
outstanding == { i \in 1..Len(net) : net[i].kind \in { "chat", "transcript" } }

(***************************************************************************)
(* C17, as the specification states it: while the Chatbot is shown at most *)
(* one chat or transcript request is outstanding.                          *)
(***************************************************************************)
C17_AtMostOneOutstanding ==
  route = "/chatbot" => Cardinality(outstanding) <= 1

(***************************************************************************)
(* C17, amended: every step starts at most one request, and a question     *)
(* typed into the input is not sent while isLoading is set; a click on a   *)
(* suggestion and a change of meeting are not held back, so that more than *)
(* one request can be outstanding.                                         *)
(***************************************************************************)
C17_OneRequestPerAction ==
  [][/\ Len(net') <= Len(net) + 1
     /\ Sends => ~isLoading
     /\ Stays /\ isLoading' => \E i \in 1..Len(net') : net'[i].kind = "chat"]_vars

\* a chat request and a transcript request are outstanding together
C17_Witness ==
  /\ route = "/chatbot"
  /\ Cardinality(outstanding) = 2
  /\ \E i \in outstanding : net[i].kind = "chat"
  /\ \E i \in outstanding : net[i].kind = "transcript"

C19_StaleTranscriptDiscarded ==
  [][\A i \in 1..Len(net) : \A out \in { "ok", "badjson", "status", "throw" } :
       \A transcript \in AnyTranscript :
         /\ fetchTranscript(i, out, transcript)
         /\ net[i].meetingId # selectedMeeting
         => UNCHANGED << selectedTranscript, messages, suggestedQuestions >>]_vars

(***************************************************************************)
(* C20: a chat call that fails is answered in the log by one bot message   *)
(* and is not sent again.  When the fetch throws or the body is not JSON   *)
(* the message is the fixed "Sorry, I encountered an error" text; when the *)
(* payload has an error field the message contains that error text as it   *)
(* came.  The reply takes its request out of the requests in flight and    *)
(* puts none in.                                                           *)
(***************************************************************************)
C20_FailureAnsweredOnce ==
  [][\A i \in 1..Len(net) : \A out \in { "error", "badjson", "throw" } :
       \A text \in Answers \cup Errors :
         chatResponse(i, out, text)
         => /\ Len(messages') = Len(messages) + 1
            /\ SubSeq(messages', 1, Len(messages)) = messages
            /\ messages'[Len(messages')].sender = "bot"
            /\ out # "error" => messages'[Len(messages')].text = Str_sorry
            /\ out = "error" => includes(messages'[Len(messages')].text, text)
            /\ Len(net') = Len(net) - 1
            /\ \A j \in 1..Len(net') : net'[j] \in { net[k] : k \in 1..Len(net) }
            /\ ~isLoading']_vars

\* the failure text is the last message of the log and nothing is in flight
C20_Witness ==
  /\ route = "/chatbot"
  /\ Len(messages) >= 3
  /\ messages[Len(messages) - 1].sender = "user"
  /\ messages[Len(messages)] = BotMessage(Str_sorry)
  /\ net = << >>
  /\ ~isLoading


(***************************************************************************)
(* C21: when a transcript request or the meetings listing fails, with a    *)
(* status that is not OK and not 401 or with an exception, the reply adds  *)
(* a bot message to the log.                                               *)
(***************************************************************************)
C21_FailureSurfacedInLog ==
  [][\A i \in 1..Len(net) : \A out \in { "badjson", "status", "throw" } :
       \/ fetchTranscript(i, out, << >>)
       \/ fetchUserMeetings(i, out, << >>)
       => /\ Len(messages') > Len(messages)
          /\ messages'[Len(messages')].sender = "bot"]_vars


(***************************************************************************)
(* C22: a 401 is handled the same way whichever request it answers (the    *)
(* meetings listing, a transcript, a chat query, an upload, a recording):  *)
(* 'token' and 'user' leave the storage, isLoggedIn of the page is false,  *)
(* the router shows /login, the request leaves the requests in flight and  *)
(* no request is sent in its place, and neither the list of meetings, the  *)
(* transcript, the log nor a status text of Meetings changes.  The 401     *)
(* that answers the request of an unmounted page also clears the storage   *)
(* and navigates to /login.                                                *)
(***************************************************************************)
C22_UnauthorizedHandledAlike ==
  [][\A i \in 1..Len(net) :
       /\ \/ fetchUserMeetings(i, "401", << >>)
          \/ fetchTranscript(i, "401", << >>)
          \/ chatResponse(i, "401", << >>)
          \/ handleUploadResponse(i, "401", << >>)
          \/ handleRecordMeetingResponse(i, "401", << >>)
          => /\ ~token' /\ ~user'
             /\ ~isLoggedIn' /\ ~meetingsLoggedIn'
             /\ route' = "/login"
             /\ net' = unmounted(Remove(net, i))
             /\ UNCHANGED << meetings, selectedTranscript, messages, suggestedQuestions >>
             /\ UNCHANGED << meetingsTranscript, uploadStatus, recordStatus, selectedFile >>
       /\ staleReply(i, "401")
          => /\ ~token' /\ ~user'
             /\ ~isLoggedIn' /\ ~meetingsLoggedIn'
             /\ route' = "/login"
             /\ Len(net') = Len(net) - 1
             /\ \A j \in 1..Len(net') : net'[j].kind \in { "stale", "login" }]_vars

\* an upload has been answered by a 401: the status text is still the one
\* handleUpload set before its fetch
C22_Witness ==
  /\ route = "/login"
  /\ ~token /\ ~user
  /\ ~meetingsLoggedIn
  /\ ~isUploading
  /\ uploadStatus = Str_uploading
  /\ meetingsTranscript = << >>

(***************************************************************************)
(* C23: while isLoggedIn of the page shown is false, each protected action *)
(* (send, click on a suggested question, select a meeting, show the        *)
(* transcript; choose a file, upload, start the recording bot; the two     *)
(* buttons of Home) that the page lets the user take navigates to /login,  *)
(* sends no request and leaves the state of Chatbot and of Meetings as it  *)
(* is: the handler can end that way and in no other way.                   *)
(***************************************************************************)
\* a step that navigates to /login, sends nothing and keeps the pages' state
Redirected ==
  /\ route' = "/login"
  /\ Len(net') = Len(net)
  /\ UNCHANGED << view, uploads >>

C23_ProtectedActionsRedirect ==
  /\ route = "/chatbot" /\ ~isLoggedIn
     => /\ ENABLED handleSend
           => ENABLED (handleSend /\ Redirected) /\ ~ENABLED (handleSend /\ ~Redirected)
        /\ \A i \in 1..Len(suggestedQuestions) :
             ENABLED handleQuestionClick(suggestedQuestions[i])
             => /\ ENABLED (handleQuestionClick(suggestedQuestions[i]) /\ Redirected)
                /\ ~ENABLED (handleQuestionClick(suggestedQuestions[i]) /\ ~Redirected)
        /\ \A value \in MeetingIds \cup { NoMeeting } :
             ENABLED handleMeetingChange(value)
             => /\ ENABLED (handleMeetingChange(value) /\ Redirected)
                /\ ~ENABLED (handleMeetingChange(value) /\ ~Redirected)
        /\ ENABLED handleShowTranscript
           => /\ ENABLED (handleShowTranscript /\ Redirected)
              /\ ~ENABLED (handleShowTranscript /\ ~Redirected)
  /\ route = "/meetings" /\ ~meetingsLoggedIn
     => /\ \A fileName \in FileNames :
             ENABLED chooseFile(fileName)
             => /\ ENABLED (chooseFile(fileName) /\ Redirected)
                /\ ~ENABLED (chooseFile(fileName) /\ ~Redirected)
        /\ ENABLED handleUpload
           => ENABLED (handleUpload /\ Redirected) /\ ~ENABLED (handleUpload /\ ~Redirected)
        /\ ENABLED handleRecordMeeting
           => /\ ENABLED (handleRecordMeeting /\ Redirected)
              /\ ~ENABLED (handleRecordMeeting /\ ~Redirected)
  /\ route = "/" /\ ~homeLoggedIn
     => \A path \in { "/chatbot", "/meetings" } :
          ENABLED Home_handleProtectedAction(path)
          => /\ ENABLED (Home_handleProtectedAction(path) /\ Redirected)
             /\ ~ENABLED (Home_handleProtectedAction(path) /\ ~Redirected)


(***************************************************************************)
(* C24: 'token' is in the storage exactly when 'user' is.  The two are     *)
(* written only by the reply to a login whose response is OK; they are     *)
(* removed only by handleLogout and by the reply that is a 401; and a      *)
(* login that is rejected or throws leaves both as they were.              *)
(***************************************************************************)
\* the reply to request i is a 401
Unauthorized(i) ==
  \/ fetchUserMeetings(i, "401", << >>)
  \/ fetchTranscript(i, "401", << >>)
  \/ chatResponse(i, "401", << >>)
  \/ handleUploadResponse(i, "401", << >>)
  \/ handleRecordMeetingResponse(i, "401", << >>)
  \/ staleReply(i, "401")

C24_SessionLifecycle ==
  /\ [](token <=> user)
  /\ [][/\ (token' /\ ~token) \/ (user' /\ ~user)
           => \E i \in 1..Len(net) : handleLoginResponse(i, "ok")
        /\ (token /\ ~token') \/ (user /\ ~user')
           => handleLogout \/ \E i \in 1..Len(net) : Unauthorized(i)
        /\ \A i \in 1..Len(net) : \A out \in { "rejected", "throw" } :
             handleLoginResponse(i, out) => UNCHANGED << token, user >>]_vars

\* a login has been answered OK and has written both items, its redirect is
\* pending, and another login is still unanswered
C24_Witness ==
  /\ token /\ user
  /\ route = "/login"
  /\ ~navLoggedIn
  /\ loginTimers = 1
  /\ \E i \in 1..Len(net) : net[i].kind = "login"


(***************************************************************************)
(* The chat history: handleSend on the logs of conversations of up to two  *)
(* rounds, a round being a question and what it was answered with.         *)
(***************************************************************************)
HistMaxLog == 8

\* 'Thanks'
Q_thanks ==
  << "T", "h", "a", "n", "k", "s" >>

\* a round of the conversation: the question, then the bot messages it got
\* (none when data.answer was empty)
HistRounds ==
  { << UserMessage(Q_plain), BotMessage(A_text) >>,
    << UserMessage(Q_plain) >>,
    << UserMessage(contextQuestions[1]), BotMessage(Str_sorry) >>,
    << UserMessage(Q_thanks), BotMessage(A_text) >>,
    << UserMessage(Q_flagged) >>
      \o BotMessages(splitIntoSpeakerParagraphs(replaceNewlines(T_labelled))) }

HistLogs ==
  { << LoadedMessage(MeetingName(1)) >> }
  \cup { << LoadedMessage(MeetingName(1)) >> \o r : r \in HistRounds }
  \cup { << LoadedMessage(MeetingName(1)) >> \o r1 \o r2 : r1 \in HistRounds, r2 \in HistRounds }

HistInputs == { Q_plain, Q_flagged, Q_thanks, contextQuestions[1] }

HistInit ==
  /\ route = "/chatbot"
  /\ token = TRUE
  /\ user = TRUE
  /\ navLoggedIn = TRUE
  /\ isLoggedIn = TRUE
  /\ meetings = BackendMeetings
  /\ selectedMeeting = 1
  /\ selectedTranscript = T_labelled
  /\ messages \in HistLogs
  /\ suggestedQuestions = IF Len(messages) = 1 THEN contextQuestions ELSE << >>
  /\ input \in HistInputs
  /\ isLoading = FALSE
  /\ net = << >>
  /\ loginTimers = 0
  /\ homeLoggedIn = FALSE
  /\ uploadsStart
  /\ formStart

HistNext == handleSendAt(HistMaxLog)

HistorySpec == HistInit /\ [][HistNext]_vars

(***************************************************************************)
(* C25: each entry of the chat_history of a chat request is a question of  *)
(* the log and its answer: `question` is the text of a user message that   *)
(* was in the log before the question now asked, and `answer` is the text  *)
(* of a bot message that follows that user message with no other user      *)
(* message in between.                                                     *)
(***************************************************************************)
C25_HistoryIsQuestionAnswerPairs ==
  [][HistNext /\ Len(net') = Len(net) + 1
     => LET history == net'[Len(net')].chat_history
        IN  \A k \in 1..Len(history) :
              \E p \in 1..Len(messages) : \E r \in 1..Len(messages) :
                /\ p < r
                /\ messages[p] = UserMessage(history[k].question)
                /\ messages[r] = BotMessage(history[k].answer)
                /\ \A j \in (p + 1)..r : messages[j].sender = "bot"]_vars


(***************************************************************************)
(* C26: while no transcript request is in flight, the transcript Chatbot   *)
(* holds is empty or is the transcript of the meeting that is selected.    *)
(***************************************************************************)
C26_TranscriptOfSelectedMeeting ==
  /\ route = "/chatbot"
  /\ \A i \in 1..Len(net) : net[i].kind # "transcript"
  => \/ selectedTranscript = << >>
     \/ /\ selectedMeeting # NoMeeting
        /\ selectedTranscript = StoredTranscript(selectedMeeting)


(***************************************************************************)
(* C27: a bot answer is appended to a log that holds its question: when    *)
(* the reply to a chat request adds a message, the user message with the   *)
(* question of that request is in the log.                                 *)
(***************************************************************************)
C27_AnswerFollowsItsQuestion ==
  [][\A i \in 1..Len(net) : \A out \in { "answer", "error", "badjson", "throw" } :
       \A text \in Answers \cup Errors :
         chatResponse(i, out, text) /\ messages' # messages
         => \E p \in 1..Len(messages) : messages[p] = UserMessage(net[i].question)]_vars


(***************************************************************************)
(* C28: isLoading is true in every state in which a chat request of the    *)
(* Chatbot shown is outstanding.                                           *)
(***************************************************************************)
C28_LoadingWhileOutstanding ==
  route = "/chatbot" /\ (\E i \in 1..Len(net) : net[i].kind = "chat") => isLoading


(***************************************************************************)
(* The two copies of the classifier: handleSend and the replies of the     *)
(* chat service, on a Chatbot with and without a transcript loaded.        *)
(***************************************************************************)
\* a logged-in Chatbot, before a meeting is selected or with meeting 1
\* loaded, with one of the texts of ClsInputs typed in
CopiesInit ==
  /\ route = "/chatbot"
  /\ token = TRUE
  /\ user = TRUE
  /\ navLoggedIn = TRUE
  /\ isLoggedIn = TRUE
  /\ meetings = BackendMeetings
  /\ selectedMeeting \in { NoMeeting, 1 }
  /\ selectedTranscript = IF selectedMeeting = NoMeeting THEN << >> ELSE T_labelled
  /\ suggestedQuestions = updateSuggestedQuestions(selectedTranscript)
  /\ messages = IF selectedMeeting = NoMeeting THEN << HelloMessage >>
                ELSE << LoadedMessage(MeetingName(1)) >>
  /\ input \in ClsInputs
  /\ isLoading = FALSE
  /\ net = << >>
  /\ loginTimers = 0
  /\ homeLoggedIn = FALSE
  /\ uploadsStart
  /\ formStart

CopiesNext ==
  \/ handleSend
  \/ \E i \in 1..Len(net) : \E out \in { "401", "answer", "error", "badjson", "throw" } :
       \E text \in Answers \cup Errors : chatResponse(i, out, text)

CopiesSpec == CopiesInit /\ [][CopiesNext]_vars

(***************************************************************************)
(* C29, as stated: the answer askOllama returns at once goes through the   *)
(* Segmenter (isTranscriptQuery is true of the question) exactly when it   *)
(* is the transcript.                                                      *)
(***************************************************************************)
C29_SplitExactlyTheTranscript ==
  [][Sends /\ ~askOllama(input).fetch
     => (isTranscriptQuery(input)
         <=> askOllama(input).answer = replaceNewlines(selectedTranscript))]_vars

(***************************************************************************)
(* C29: the inline test of askOllama and isTranscriptQuery give every      *)
(* question that is sent the same decision.  With a transcript loaded the  *)
(* answer goes through the Segmenter exactly when it is the transcript;    *)
(* with none loaded askOllama returns the "Please select a meeting" text   *)
(* before its test is reached, and that text goes through the Segmenter    *)
(* when the question is flagged and comes out as one message.  The         *)
(* question of a chat request is never flagged, so its reply is appended   *)
(* as at most one message.                                                 *)
(***************************************************************************)
C29_CopiesAgree ==
  [][/\ Sends
        => /\ askOllamaWantsTranscript(input) <=> isTranscriptQuery(input)
           /\ selectedTranscript # << >>
              => (isTranscriptQuery(input)
                  <=> /\ ~askOllama(input).fetch
                      /\ askOllama(input).answer = replaceNewlines(selectedTranscript))
           /\ selectedTranscript = << >>
              => Appends(<< UserMessage(input), BotMessage(Str_pleaseSelect) >>)
     /\ \A i \in 1..Len(net) : \A out \in { "answer", "error", "badjson", "throw" } :
          \A text \in Answers \cup Errors :
            chatResponse(i, out, text)
            => /\ ~isTranscriptQuery(net[i].question)
               /\ ~askOllamaWantsTranscript(net[i].question)
               /\ Len(messages') <= Len(messages) + 1]_vars

\* with no transcript loaded a flagged question has been answered with the
\* "Please select a meeting" text
C29_Witness ==
  /\ selectedTranscript = << >>
  /\ Len(messages) = 3
  /\ messages[2].sender = "user"
  /\ isTranscriptQuery(messages[2].text)
  /\ messages[3] = BotMessage(Str_pleaseSelect)
  /\ net = << >>


(***************************************************************************)
(* Signup: the form and its submission.                                    *)
(***************************************************************************)
\* 'Passwords do not match'
Str_noMatch ==
  << "P", "a", "s", "s", "w", "o", "r", "d", "s", " ", "d", "o", " ", "n", "o", "t", " ", "m",
     "a", "t", "c", "h" >>

\* 'Network error'
Str_networkError ==
  << "N", "e", "t", "w", "o", "r", "k", " ", "e", "r", "r", "o", "r" >>

\* what the user types as the email address
Emails == { << >>, << "a", "@", "b" >>, << "c", "@", "d" >> }

\* what the user types as the password and as its confirmation
Passwords == { << >>, << "p" >>, << "P" >>, << "p", "q" >> }

\* onChange of the inputs of the form
setEmail(value) ==
  /\ route = "/signup"
  /\ value # email
  /\ email' = value
  /\ UNCHANGED << password, confirm, error, success >>
  /\ UNCHANGED << route, token, user, navLoggedIn, homeLoggedIn, view, net, loginTimers, uploads >>

setPassword(value) ==
  /\ route = "/signup"
  /\ value # password
  /\ password' = value
  /\ UNCHANGED << email, confirm, error, success >>
  /\ UNCHANGED << route, token, user, navLoggedIn, homeLoggedIn, view, net, loginTimers, uploads >>

setConfirm(value) ==
  /\ route = "/signup"
  /\ value # confirm
  /\ confirm' = value
  /\ UNCHANGED << email, password, error, success >>
  /\ UNCHANGED << route, token, user, navLoggedIn, homeLoggedIn, view, net, loginTimers, uploads >>

\* The argument of fetch is JSON.stringify({ username, password }), and
\* `username` is declared nowhere in the module: evaluating it throws a
\* ReferenceError inside the try block before fetch is called, and the catch
\* block sets "Network error".  The code after the await is never reached.
handleSignup ==
  /\ route = "/signup"
  /\ success' = << >>
  /\ error' = IF password # confirm THEN Str_noMatch ELSE Str_networkError
  /\ UNCHANGED << email, password, confirm >>
  /\ UNCHANGED << route, token, user, navLoggedIn, homeLoggedIn, view, net, loginTimers, uploads >>

\* the Signup page is open, with nothing in localStorage
SignupInit ==
  /\ route = "/signup"
  /\ token = FALSE
  /\ user = FALSE
  /\ navLoggedIn = FALSE
  /\ isLoggedIn = FALSE
  /\ meetings = << >>
  /\ selectedMeeting = NoMeeting
  /\ selectedTranscript = << >>
  /\ suggestedQuestions = initialQuestions
  /\ messages = << HelloMessage >>
  /\ input = << >>
  /\ isLoading = FALSE
  /\ net = << >>
  /\ loginTimers = 0
  /\ homeLoggedIn = FALSE
  /\ uploadsStart
  /\ formStart

SignupNext ==
  \/ \E value \in Emails : setEmail(value)
  \/ \E value \in Passwords : setPassword(value)
  \/ \E value \in Passwords : setConfirm(value)
  \/ handleSignup

SignupSpec == SignupInit /\ [][SignupNext]_vars

(***************************************************************************)
(* C30: a submission of the Signup form whose password and confirmation    *)
(* differ sends no request and sets the error "Passwords do not match"; a  *)
(* submission whose password and confirmation are equal sends one request, *)
(* the POST to /api/signup.                                                *)
(***************************************************************************)
C30_SignupPostsOnce ==
  [][handleSignup
     => IF password # confirm
        THEN net' = net /\ error' = Str_noMatch
        ELSE Len(net') = Len(net) + 1]_vars

====
